---- MODULE Spec2Model ----
(***************************************************************************)
(* Model of the ID-token verification core of cloudfire-auth               *)
(* (src/src/rest-api/verify-id-token.ts).                                  *)
(*                                                                         *)
(* One verifyIdTokenHandler call is a process whose position is pc; every  *)
(* await on a collaborator (KV get, key-set fetch, KV put, jose            *)
(* verification, account lookup) is one action.  The three parts of the    *)
(* compact token (payload, protected header, signature) are opaque until   *)
(* the code decodes them: decodeJwt, decodeProtectedHeader and jwtVerify   *)
(* each read their part of the input at the step where the code calls      *)
(* them.                                                                   *)
(***************************************************************************)
EXTENDS Integers, Sequences, FiniteSets, TLC

VARIABLES
  pc,            \* position of the verifyIdTokenHandler call
  projectId,     \* argument projectId
  oauth2Token,   \* argument oauth2Token
  kvGiven,       \* whether argument kv was supplied
  checkRevoked,  \* argument checkRevoked: JS true, false or undefined
  kv,            \* contents of the KV namespace: key -> Null or [value, expirationTtl]
  clock,         \* Date.now() at the last read, in ticks of 1/TicksPerSecond second
  jwtBody,       \* payload of idToken, as decodeJwt returns it
  jwtHeader,     \* protected header of idToken, as decodeProtectedHeader returns it
  jwtSignedBy,   \* private key that produced the signature of idToken
  expectedKeyId, \* validateJwtHeader: const expectedKeyId
  signingKey,    \* validateJwtHeader: signingKey, then verifyIdTokenHandler: signingKey
  cacheDuration, \* validateJwtHeader: googlePublicKeys.cache_duration
  tokenPayload,  \* verifyIdTokenHandler: tokenPayload
  result,        \* settled promise of the call: Pending, Resolved(claims) or Rejected(error)
  io,            \* collaborator calls made by this call, in order
  calls,         \* validateJwtHeader calls in progress on the shared cache: id -> frame
  served,        \* key set the key source serves
  accounts,      \* Firebase Auth backend: uid -> validSince of the account
  instance,      \* fields of the CloudFireAuth instance
  callers,       \* getOauth2AccessToken calls in progress on the instance: id -> frame
  tokenKv        \* KV entry "oauth2Token": NoEntry or [value, expiration]

\* the variables of one verifyIdTokenHandler call
handler == <<pc, projectId, oauth2Token, kvGiven, checkRevoked, kv, clock, jwtBody, jwtHeader,
             jwtSignedBy, expectedKeyId, signingKey, cacheDuration, tokenPayload, result, io>>

\* what lies outside one verifyIdTokenHandler call
outside == <<calls, served, accounts, instance, callers, tokenKv>>

vars == <<handler, outside>>

(***************************************************************************)
(* Bounds                                                                  *)
(***************************************************************************)
MaxTime == 3          \* largest Unix-second value carried by a claim
MaxClock == 4         \* last tick the clock reaches

TicksPerSecond == 2
\* Date.now() when the call is made: between two whole seconds
StartClock == TicksPerSecond + 1

(***************************************************************************)
(* JavaScript values                                                       *)
(***************************************************************************)
Undef == [undef |-> TRUE]
NaN == [nan |-> TRUE]
Null == [null |-> TRUE]
Num(n) == [num |-> n]
Str(s) == [str |-> s]
Bool(b) == [bool |-> b]

IsNum(v) == "num" \in DOMAIN v
IsStr(v) == "str" \in DOMAIN v
IsNaN(v) == "nan" \in DOMAIN v

\* typeof v
TypeOf(v) ==
  IF IsNum(v) \/ IsNaN(v) THEN "number"
  ELSE IF IsStr(v) THEN "string"
  ELSE IF "bool" \in DOMAIN v THEN "boolean"
  ELSE IF "null" \in DOMAIN v THEN "object"
  ELSE "undefined"

\* ToBoolean(v), the test of `v && ...` and `!v`
Truthy(v) ==
  IF IsNum(v) THEN v.num # 0
  ELSE IF IsStr(v) THEN v.str # ""
  ELSE IF "bool" \in DOMAIN v THEN v.bool
  ELSE FALSE

\* ToNumber(v) as the relational operators apply it
ToNumber(v) ==
  IF IsNum(v) THEN v
  ELSE IF IsStr(v) THEN (IF v.str = "" THEN Num(0) ELSE NaN)
  ELSE IF "bool" \in DOMAIN v THEN Num(IF v.bool THEN 1 ELSE 0)
  ELSE IF "null" \in DOMAIN v THEN Num(0)
  ELSE NaN

\* a < b and a > b on values that are not both strings
JsLess(a, b) ==
  LET x == ToNumber(a)
      y == ToNumber(b)
  IN  IsNum(x) /\ IsNum(y) /\ x.num < y.num

JsGreater(a, b) == JsLess(b, a)

\* `${v}`
ToStr(v) ==
  IF IsStr(v) THEN v.str
  ELSE IF IsNum(v) THEN ToString(v.num)
  ELSE IF IsNaN(v) THEN "NaN"
  ELSE IF "bool" \in DOMAIN v THEN (IF v.bool THEN "true" ELSE "false")
  ELSE IF "null" \in DOMAIN v THEN "null"
  ELSE "undefined"

\* new Error(message) and the errors other code throws
Err(name, message) == [name |-> name, message |-> message]
Error(message) == Err("Error", message)

Pending == [state |-> "pending"]
Resolved(v) == [state |-> "fulfilled", value |-> v]
Rejected(e) == [state |-> "rejected", reason |-> e]

(***************************************************************************)
(* Clock                                                                   *)
(***************************************************************************)
\* Math.ceil(Date.now() / 1000)
CeilSeconds(t) == (t + TicksPerSecond - 1) \div TicksPerSecond
\* Math.floor(Date.now() / 1000), jose's epoch(new Date())
FloorSeconds(t) == t \div TicksPerSecond

(***************************************************************************)
(* Input domains                                                           *)
(***************************************************************************)
ProjectIds == {"p1"}
Issuer(p) == "https://securetoken.google.com/" \o p

Times == {Undef} \cup {Num(n) : n \in 0..MaxTime}

\* payloads given to validateJwtBody on its own
AllBodies ==
  [aud : {Str("p1"), Str("p2")},
   sub : {Num(12345), Str(""), Str("u1")},
   iss : {Str(Issuer("p1")), Str("https://evil.com")},
   exp : Times,
   iat : Times,
   auth_time : {Undef, Str(""), Str("soon"), Num(1), Num(MaxTime)}]

\* payloads of the tokens given to verifyIdTokenHandler
Bodies ==
  {b \in AllBodies :
     /\ b.exp \in {Undef, Num(0), Num(1), Num(MaxTime)}
     /\ b.iat \in {Undef, Num(0), Num(1), Num(MaxTime)}
     /\ b.auth_time \in {Undef, Str("soon"), Num(1), Num(MaxTime)}}

(***************************************************************************)
(* validateJwtBody                                                         *)
(***************************************************************************)
Valid == [isValid |-> TRUE]
Invalid(m) == [isValid |-> FALSE, errorMessage |-> m]

audienceMessage(p, aud) ==
  "Token audience does not match project ID, expected " \o p \o ", got " \o ToStr(aud)

issuerMessage(p, iss) ==
  "Token issuer does not match project ID, expected " \o Issuer(p) \o ", got " \o ToStr(iss)

\* validateJwtBody with the subject checks moved in front of the audience check
validateJwtBody_SubjectFirst(firebaseJwtBody, p, ct) ==
  IF TypeOf(firebaseJwtBody.sub) # "string" THEN Invalid("Token subject is not a string")
  ELSE IF firebaseJwtBody.sub = Str("") THEN Invalid("Token subject is empty")
  ELSE IF firebaseJwtBody.aud # Str(p) THEN Invalid(audienceMessage(p, firebaseJwtBody.aud))
  ELSE IF firebaseJwtBody.iss # Str(Issuer(p)) THEN Invalid(issuerMessage(p, firebaseJwtBody.iss))
  ELSE IF Truthy(firebaseJwtBody.exp) /\ JsLess(firebaseJwtBody.exp, Num(ct))
    THEN Invalid("Token expiration date is in the past")
  ELSE IF Truthy(firebaseJwtBody.iat) /\ JsGreater(firebaseJwtBody.iat, Num(ct))
    THEN Invalid("Token issued at date is in the future")
  ELSE IF Truthy(firebaseJwtBody.auth_time) /\ TypeOf(firebaseJwtBody.auth_time) # "number"
    THEN Invalid("Token auth time is not a number")
  ELSE IF JsGreater(firebaseJwtBody.auth_time, Num(ct))
    THEN Invalid("Token auth time is in the future")
  ELSE Valid

\* validateJwtBody without the issuer check
validateJwtBody_NoIssuer(firebaseJwtBody, p, ct) ==
  IF firebaseJwtBody.aud # Str(p) THEN Invalid(audienceMessage(p, firebaseJwtBody.aud))
  ELSE IF TypeOf(firebaseJwtBody.sub) # "string" THEN Invalid("Token subject is not a string")
  ELSE IF firebaseJwtBody.sub = Str("") THEN Invalid("Token subject is empty")
  ELSE IF Truthy(firebaseJwtBody.exp) /\ JsLess(firebaseJwtBody.exp, Num(ct))
    THEN Invalid("Token expiration date is in the past")
  ELSE IF Truthy(firebaseJwtBody.iat) /\ JsGreater(firebaseJwtBody.iat, Num(ct))
    THEN Invalid("Token issued at date is in the future")
  ELSE IF Truthy(firebaseJwtBody.auth_time) /\ TypeOf(firebaseJwtBody.auth_time) # "number"
    THEN Invalid("Token auth time is not a number")
  ELSE IF JsGreater(firebaseJwtBody.auth_time, Num(ct))
    THEN Invalid("Token auth time is in the future")
  ELSE Valid

\* validateJwtBody that also rejects a token issued in the current second
validateJwtBody_IssuedNow(firebaseJwtBody, p, ct) ==
  IF firebaseJwtBody.aud # Str(p) THEN Invalid(audienceMessage(p, firebaseJwtBody.aud))
  ELSE IF TypeOf(firebaseJwtBody.sub) # "string" THEN Invalid("Token subject is not a string")
  ELSE IF firebaseJwtBody.sub = Str("") THEN Invalid("Token subject is empty")
  ELSE IF firebaseJwtBody.iss # Str(Issuer(p)) THEN Invalid(issuerMessage(p, firebaseJwtBody.iss))
  ELSE IF Truthy(firebaseJwtBody.exp) /\ JsLess(firebaseJwtBody.exp, Num(ct))
    THEN Invalid("Token expiration date is in the past")
  ELSE IF Truthy(firebaseJwtBody.iat) /\ ~JsLess(firebaseJwtBody.iat, Num(ct))
    THEN Invalid("Token issued at date is in the future")
  ELSE IF Truthy(firebaseJwtBody.auth_time) /\ TypeOf(firebaseJwtBody.auth_time) # "number"
    THEN Invalid("Token auth time is not a number")
  ELSE IF JsGreater(firebaseJwtBody.auth_time, Num(ct))
    THEN Invalid("Token auth time is in the future")
  ELSE Valid

validateJwtBody(firebaseJwtBody, p, ct) ==
  IF firebaseJwtBody.aud # Str(p) THEN Invalid(audienceMessage(p, firebaseJwtBody.aud))
  ELSE IF TypeOf(firebaseJwtBody.sub) # "string" THEN Invalid("Token subject is not a string")
  ELSE IF firebaseJwtBody.sub = Str("") THEN Invalid("Token subject is empty")
  ELSE IF firebaseJwtBody.iss # Str(Issuer(p)) THEN Invalid(issuerMessage(p, firebaseJwtBody.iss))
  ELSE IF Truthy(firebaseJwtBody.exp) /\ JsLess(firebaseJwtBody.exp, Num(ct))
    THEN Invalid("Token expiration date is in the past")
  ELSE IF Truthy(firebaseJwtBody.iat) /\ JsGreater(firebaseJwtBody.iat, Num(ct))
    THEN Invalid("Token issued at date is in the future")
  ELSE IF Truthy(firebaseJwtBody.auth_time) /\ TypeOf(firebaseJwtBody.auth_time) # "number"
    THEN Invalid("Token auth time is not a number")
  ELSE IF JsGreater(firebaseJwtBody.auth_time, Num(ct))
    THEN Invalid("Token auth time is in the future")
  ELSE Valid

(***************************************************************************)
(* Strings the code takes apart character by character                     *)
(***************************************************************************)
\* a JS string given as the sequence of its characters
Text(chars) == [text |-> chars]
IsText(v) == "text" \in DOMAIN v

Digits == <<"0", "1", "2", "3", "4", "5", "6", "7", "8", "9">>
IsDigit(c) == \E i \in 1..10 : Digits[i] = c
DigitVal(c) == (CHOOSE i \in 1..10 : Digits[i] = c) - 1

RECURSIVE SkipSpaces(_)
SkipSpaces(s) == IF s # <<>> /\ Head(s) = " " THEN SkipSpaces(Tail(s)) ELSE s

RECURSIVE ParseDigits(_, _)
ParseDigits(s, acc) ==
  IF s = <<>> \/ ~IsDigit(Head(s)) THEN acc
  ELSE ParseDigits(Tail(s), acc * 10 + DigitVal(Head(s)))

\* parseInt(string): leading white space skipped, then the longest run of digits
parseInt(chars) ==
  LET s == SkipSpaces(chars)
  IN  IF s = <<>> \/ ~IsDigit(Head(s)) THEN NaN ELSE Num(ParseDigits(s, 0))

RECURSIVE UpTo(_, _)
\* the characters of s before the first occurrence of sep
UpTo(s, sep) == IF s = <<>> \/ Head(s) = sep THEN <<>> ELSE <<Head(s)>> \o UpTo(Tail(s), sep)

RECURSIVE After(_, _)
\* the characters of s after the first occurrence of sep; Undef when sep does not occur
After(s, sep) ==
  IF s = <<>> THEN Undef
  ELSE IF Head(s) = sep THEN Text(Tail(s))
  ELSE After(Tail(s), sep)

\* string.split("=")[1]
SplitSecond(chars) ==
  LET rest == After(chars, "=")
  IN  IF rest = Undef THEN Undef ELSE Text(UpTo(rest.text, "="))

(***************************************************************************)
(* Keys, certificates and the key source                                   *)
(***************************************************************************)
PrivateKeys == {"key1", "key2"}

\* importX509(certificate, "RS256"): the public key of a well-formed certificate
CertKey(cert) ==
  IF cert = Str("cert1") THEN "key1"
  ELSE IF cert = Str("cert2") THEN "key2"
  ELSE "not-x509"

Importable(cert) == CertKey(cert) \in PrivateKeys

HeaderKids == {Undef, Str(""), Str("k1"), Str("k2")}

Headers ==
  [alg : {Str("RS256"), Str("HS256")},
   typ : {Undef, Str("JWT"), Str("JOSE")},
   kid : HeaderKids]

\* property names the key source may serve
KeyNames == {"k1", "undefined"}
ServedCerts == {Str("cert1"), Str("cert2")}
KeySets == UNION {[S -> ServedCerts] : S \in SUBSET KeyNames}

\* values of the cache-control response header
CacheControls ==
  {Null,
   Text(<<"no-store">>),
   Text(<<"max-age", "=", "6", "0">>),
   Text(<<"public", ",", " ", "max-age", "=", "6", "0", ",", " ", "must-revalidate">>),
   Text(<<"s-maxage", "=", "9", ",", " ", "max-age", "=", "6", "0">>),
   Text(<<"max-age", "=", "0">>),
   Text(<<"max-age", "=">>),
   Text(<<"max-age", "=", "soon">>)}

\* object[key] that falls back on some other property when the key is missing
Prop_Fallback(object, name) ==
  IF name \in DOMAIN object THEN object[name]
  ELSE IF DOMAIN object # {} THEN object[CHOOSE other \in DOMAIN object : TRUE]
  ELSE Undef

\* object[key] for a JSON object
Prop(object, name) == IF name \in DOMAIN object THEN object[name] ELSE Undef

\* getGooglePublicKeys: cache_duration from the cache-control header
cache_duration(cacheControl) ==
  LET cacheDurationText == IF cacheControl = Null THEN Undef ELSE SplitSecond(cacheControl.text)
  IN  IF IsText(cacheDurationText) /\ cacheDurationText.text # <<>>
        THEN parseInt(cacheDurationText.text)
        ELSE Num(0)

\* validateJwtHeader: `googlePublicKey-${firebaseJwtHeader.kid}`
KeyIdOf(header) == "googlePublicKey-" \o ToStr(header.kid)

CacheKeys == {KeyIdOf([kid |-> k]) : k \in HeaderKids}
NoEntry == Null
Entry(v, ttl) == [value |-> v, expirationTtl |-> ttl]

EmptyKV == [k \in CacheKeys |-> NoEntry]

\* contents of the KV namespace when the call is made
InitialKVs ==
  {EmptyKV,
   [EmptyKV EXCEPT !["googlePublicKey-k1"] = Entry(Str("cert1"), Undef)],
   [EmptyKV EXCEPT !["googlePublicKey-k1"] = Entry(Str("mock-certificate"), Undef)],
   [EmptyKV EXCEPT !["googlePublicKey-undefined"] = Entry(Str("cert2"), Undef)]}

\* kv.get that answers a miss with a built-in certificate
KvValue_Default(store, key) == IF store[key] = NoEntry THEN Str("cert1") ELSE store[key].value

\* kv.get(key)
KvValue(store, key) == IF store[key] = NoEntry THEN Null ELSE store[key].value

(***************************************************************************)
(* jose: jwtVerify(token, key, { issuer, audience })                       *)
(***************************************************************************)
Verified(payload) == [ok |-> TRUE, payload |-> payload]
Thrown(e) == [ok |-> FALSE, error |-> e]

\* jwtVerify called with the issuer URL as the expected audience
jwtVerify_AudienceIsIssuer(body, signedBy, publicKey, p, now) ==
  IF signedBy # publicKey
    THEN Thrown(Err("JWSSignatureVerificationFailed", "signature verification failed"))
  ELSE IF body.iss # Str(Issuer(p))
    THEN Thrown(Err("JWTClaimValidationFailed", "unexpected \"iss\" claim value"))
  ELSE IF body.aud # Str(Issuer(p))
    THEN Thrown(Err("JWTClaimValidationFailed", "unexpected \"aud\" claim value"))
  ELSE IF body.iat # Undef /\ TypeOf(body.iat) # "number"
    THEN Thrown(Err("JWTClaimValidationFailed", "\"iat\" claim must be a number"))
  ELSE IF body.exp # Undef /\ TypeOf(body.exp) # "number"
    THEN Thrown(Err("JWTClaimValidationFailed", "\"exp\" claim must be a number"))
  ELSE IF body.exp # Undef /\ body.exp.num <= now
    THEN Thrown(Err("JWTExpired", "\"exp\" claim timestamp check failed"))
  ELSE Verified(body)

\* signature first, then the claims set: iss, aud, iat, exp
jwtVerify(body, signedBy, publicKey, p, now) ==
  IF signedBy # publicKey
    THEN Thrown(Err("JWSSignatureVerificationFailed", "signature verification failed"))
  ELSE IF body.iss # Str(Issuer(p))
    THEN Thrown(Err("JWTClaimValidationFailed", "unexpected \"iss\" claim value"))
  ELSE IF body.aud # Str(p)
    THEN Thrown(Err("JWTClaimValidationFailed", "unexpected \"aud\" claim value"))
  ELSE IF body.iat # Undef /\ TypeOf(body.iat) # "number"
    THEN Thrown(Err("JWTClaimValidationFailed", "\"iat\" claim must be a number"))
  ELSE IF body.exp # Undef /\ TypeOf(body.exp) # "number"
    THEN Thrown(Err("JWTClaimValidationFailed", "\"exp\" claim must be a number"))
  ELSE IF body.exp # Undef /\ body.exp.num <= now
    THEN Thrown(Err("JWTExpired", "\"exp\" claim timestamp check failed"))
  ELSE Verified(body)

\* verifyToken that decodes the payload without checking the signature
verifyToken_DecodeOnly(body, signedBy, cert, p, now) == Verified(body)

\* verifyToken(token, signingKey, projectId): importX509, then jwtVerify; neither is caught
verifyToken(body, signedBy, cert, p, now) ==
  IF ~Importable(cert)
    THEN Thrown(Err("TypeError", "\"x509\" must be X.509 formatted string"))
    ELSE jwtVerify(body, signedBy, CertKey(cert), p, now)

(***************************************************************************)
(* Account lookup                                                          *)
(***************************************************************************)
\* validSince of the first user record, as the JSON carries it
ValidSinces ==
  {Undef, Text(<<>>), Text(<<"soon">>), Text(<<"2", " ">>)}
    \cup {Text(<<Digits[n + 1]>>) : n \in 0..(MaxTime + 1)}

\* JSON bodies of the accounts:lookup response
LookupBodies ==
  {[kind |-> "GetAccountInfoResponse"], [users |-> <<>>]}
    \cup {[users |-> <<[validSince |-> v]>>] : v \in ValidSinces}

networkError == Err("TypeError", "fetch failed")
jsonError == Err("SyntaxError", "Unexpected token < in JSON")
kvError == Err("Error", "KV error")

\* getTokenValidSinceTime that takes a missing record or field for validSince 0
validSinceOf_DefaultZero(accountLookupJson) ==
  IF "users" \notin DOMAIN accountLookupJson
            \/ accountLookupJson.users = <<>>
            \/ ~IsText(accountLookupJson.users[1].validSince)
            \/ accountLookupJson.users[1].validSince.text = <<>>
    THEN [ok |-> TRUE, value |-> Num(0)]
    ELSE [ok |-> TRUE, value |-> parseInt(accountLookupJson.users[1].validSince.text)]

\* getTokenValidSinceTime after the response body is parsed
validSinceOf(accountLookupJson) ==
  IF "users" \notin DOMAIN accountLookupJson
    THEN Thrown(Err("TypeError", "Cannot read properties of undefined (reading '0')"))
  ELSE IF accountLookupJson.users = <<>>
            \/ ~IsText(accountLookupJson.users[1].validSince)
            \/ accountLookupJson.users[1].validSince.text = <<>>
    THEN Thrown(Error("Token valid since time is not a string"))
  ELSE [ok |-> TRUE, value |-> parseInt(accountLookupJson.users[1].validSince.text)]

\* verifyIdTokenHandler: tokenPayload?.iat && tokenValidSinceTime > tokenPayload.iat
isRevoked(payload, tokenValidSinceTime) ==
  Truthy(payload.iat) /\ JsGreater(tokenValidSinceTime, payload.iat)

(***************************************************************************)
(* verifyIdTokenHandler                                                    *)
(***************************************************************************)
Unset == Undef
\* the signature part of the token before anything has looked at it
Unread == "unread"
Malformed == [malformed |-> TRUE]
decodeError == Err("JWTInvalid", "Invalid JWT")

\* nothing but the one call is going on
NothingOutside ==
  /\ calls = <<>>
  /\ served = <<>>
  /\ accounts = <<>>
  /\ instance = <<>>
  /\ callers = <<>>
  /\ tokenKv = Null

\* values of the oauth2Token argument
OAuth2Tokens == {"ya29.token", "ya29.other"}

Init ==
  /\ pc = "validateJwtBody"
  /\ projectId \in ProjectIds
  /\ oauth2Token \in OAuth2Tokens
  /\ kvGiven \in BOOLEAN
  /\ checkRevoked \in {Undef, Bool(FALSE), Bool(TRUE)}
  /\ kv \in (IF kvGiven THEN InitialKVs ELSE {EmptyKV})
  /\ clock = StartClock
  /\ jwtBody = Unset
  /\ jwtHeader = Unset
  /\ jwtSignedBy = Unread
  /\ expectedKeyId = Unset
  /\ signingKey = Unset
  /\ cacheDuration = Unset
  /\ tokenPayload = Unset
  /\ result = Pending
  /\ io = <<>>
  /\ NothingOutside

\* the accounts:lookup request of getTokenValidSinceTime and what came back
LookupCall(payload, token, response) ==
  [op |-> "lookup",
   localId |-> IF payload = Unset THEN Undef ELSE payload.sub,
   authorization |-> "Bearer " \o token,
   response |-> response]

\* the kv.get call of validateJwtHeader and what it returned or threw
KvGetCall(key, response) == [op |-> "kv.get", key |-> key, response |-> response]

\* what the key-source endpoint answered: the JSON key set and the cache-control header
KeysResponse(keys, cacheControl) == [keys |-> keys, cacheControl |-> cacheControl]

\* the fetch of getGooglePublicKeys and what it returned or threw
FetchCall(response) ==
  [op |-> "fetch", url |-> "securetoken@system.gserviceaccount.com", response |-> response]

\* the kv.put call of validateJwtHeader and what it returned or threw
KvPutCall(key, value, ttl, response) ==
  [op |-> "kv.put", key |-> key, value |-> value, expirationTtl |-> ttl, response |-> response]

\* a throw that settles the promise but lets the handler run on to verifyToken
Reject_RunsOn(e) ==
  /\ pc' = "verifyToken"
  /\ result' = Rejected(e)

\* throw: the promise of verifyIdTokenHandler rejects
Reject(e) ==
  /\ pc' = "done"
  /\ result' = Rejected(e)

\* return: the promise of verifyIdTokenHandler resolves
Resolve(v) ==
  /\ pc' = "done"
  /\ result' = Resolved(v)

\* validateJwtHeader is left: its locals go out of scope
LeaveHeader ==
  /\ expectedKeyId' = Unset
  /\ cacheDuration' = Unset

\* ValidateBody that settles the promise on an invalid body but runs on
ValidateBody_NoReturn ==
  /\ pc = "validateJwtBody"
  /\ \E body \in Bodies \cup {Malformed} :
       /\ jwtBody' = body
       /\ IF body = Malformed
            THEN Reject(decodeError)
            ELSE LET r == validateJwtBody(body, projectId, CeilSeconds(clock))
                 IN  /\ pc' = "validateJwtHeader"
                     /\ result' = IF r.isValid THEN result
                                  ELSE Rejected(Error(r.errorMessage))
  /\ UNCHANGED <<projectId, oauth2Token, kvGiven, checkRevoked, kv, clock, jwtHeader,
                 jwtSignedBy, expectedKeyId, signingKey, cacheDuration, tokenPayload, io>>
  /\ UNCHANGED outside

\* lines 118-122: validateJwtBody and the throw on an invalid body
ValidateBody ==
  /\ pc = "validateJwtBody"
  /\ \E body \in Bodies \cup {Malformed} :
       /\ jwtBody' = body
       /\ IF body = Malformed
            THEN Reject(decodeError)
            ELSE LET r == validateJwtBody(body, projectId, CeilSeconds(clock))
                 IN  IF r.isValid
                       THEN pc' = "validateJwtHeader" /\ UNCHANGED result
                       ELSE Reject(Error(r.errorMessage))
  /\ UNCHANGED <<projectId, oauth2Token, kvGiven, checkRevoked, kv, clock, jwtHeader,
                 jwtSignedBy, expectedKeyId, signingKey, cacheDuration, tokenPayload, io>>
  /\ UNCHANGED outside

\* DecodeHeader without the algorithm check
DecodeHeader_AnyAlg ==
  /\ pc = "validateJwtHeader"
  /\ \E header \in Headers \cup {Malformed} :
       /\ jwtHeader' = header
       /\ IF header = Malformed
            THEN Reject(decodeError) /\ UNCHANGED expectedKeyId
            ELSE /\ expectedKeyId' = KeyIdOf(header)
                 /\ pc' = IF kvGiven THEN "kv.get" ELSE "getGooglePublicKeys"
                 /\ UNCHANGED result
  /\ UNCHANGED <<projectId, oauth2Token, kvGiven, checkRevoked, kv, clock, jwtBody,
                 jwtSignedBy, signingKey, cacheDuration, tokenPayload, io>>
  /\ UNCHANGED outside

\* validateJwtHeader lines 254-264: decode the header, check alg, derive the cache key
DecodeHeader ==
  /\ pc = "validateJwtHeader"
  /\ \E header \in Headers \cup {Malformed} :
       /\ jwtHeader' = header
       /\ IF header = Malformed
            THEN Reject(decodeError) /\ UNCHANGED expectedKeyId
          ELSE IF header.alg # Str("RS256")
            THEN Reject(Error("Token algorithm is not RS256")) /\ UNCHANGED expectedKeyId
          ELSE /\ expectedKeyId' = KeyIdOf(header)
               /\ pc' = IF kvGiven THEN "kv.get" ELSE "getGooglePublicKeys"
               /\ UNCHANGED result
  /\ UNCHANGED <<projectId, oauth2Token, kvGiven, checkRevoked, kv, clock, jwtBody,
                 jwtSignedBy, signingKey, cacheDuration, tokenPayload, io>>
  /\ UNCHANGED outside

\* KvGet that reads the cache but goes on to the key source whatever it finds
KvGet_AlwaysFetch ==
  /\ pc = "kv.get"
  /\ \/ /\ io' = Append(io, KvGetCall(expectedKeyId, kvError))
        /\ Reject(kvError)
        /\ LeaveHeader
        /\ UNCHANGED signingKey
     \/ /\ io' = Append(io, KvGetCall(expectedKeyId, KvValue(kv, expectedKeyId)))
        /\ pc' = "getGooglePublicKeys"
        /\ UNCHANGED <<signingKey, result, expectedKeyId, cacheDuration>>
  /\ UNCHANGED <<projectId, oauth2Token, kvGiven, checkRevoked, kv, clock, jwtBody, jwtHeader,
                 jwtSignedBy, tokenPayload>>
  /\ UNCHANGED outside

\* validateJwtHeader lines 265-269: await kv.get(expectedKeyId)
KvGet ==
  /\ pc = "kv.get"
  /\ \/ /\ io' = Append(io, KvGetCall(expectedKeyId, kvError))
        /\ Reject(kvError)
        /\ LeaveHeader
        /\ UNCHANGED signingKey
     \/ LET googlePublicKey == KvValue(kv, expectedKeyId)
        IN  /\ io' = Append(io, KvGetCall(expectedKeyId, googlePublicKey))
            /\ IF Truthy(googlePublicKey)
                 THEN /\ pc' = "verifyToken"
                      /\ signingKey' = googlePublicKey
                      /\ LeaveHeader
                      /\ UNCHANGED result
                 ELSE /\ pc' = "getGooglePublicKeys"
                      /\ UNCHANGED <<signingKey, result, expectedKeyId, cacheDuration>>
  /\ UNCHANGED <<projectId, oauth2Token, kvGiven, checkRevoked, kv, clock, jwtBody, jwtHeader,
                 jwtSignedBy, tokenPayload>>
  /\ UNCHANGED outside

\* GetGooglePublicKeys that returns whatever the key set holds for the kid, found or not
GetGooglePublicKeys_NoKidCheck ==
  /\ pc = "getGooglePublicKeys"
  /\ \/ /\ \E e \in {networkError, jsonError} :
             io' = Append(io, FetchCall(e)) /\ Reject(e)
        /\ LeaveHeader
        /\ UNCHANGED signingKey
     \/ \E keys \in KeySets, cacheControl \in CacheControls :
          LET key == Prop(keys, ToStr(jwtHeader.kid))
              duration == cache_duration(cacheControl)
          IN  /\ io' = Append(io, FetchCall(KeysResponse(keys, cacheControl)))
              /\ IF kvGiven /\ JsGreater(duration, Num(0))
                   THEN /\ signingKey' = key
                        /\ cacheDuration' = duration
                        /\ pc' = "kv.put"
                        /\ UNCHANGED <<result, expectedKeyId>>
                   ELSE /\ signingKey' = key
                        /\ pc' = "verifyToken"
                        /\ LeaveHeader
                        /\ UNCHANGED result
  /\ UNCHANGED <<projectId, oauth2Token, kvGiven, checkRevoked, kv, clock, jwtBody, jwtHeader,
                 jwtSignedBy, tokenPayload>>
  /\ UNCHANGED outside

\* validateJwtHeader lines 273-285 with getGooglePublicKeys: fetch the key set, pick the key
GetGooglePublicKeys ==
  /\ pc = "getGooglePublicKeys"
  /\ \/ /\ \E e \in {networkError, jsonError} :
             io' = Append(io, FetchCall(e)) /\ Reject(e)
        /\ LeaveHeader
        /\ UNCHANGED signingKey
     \/ \E keys \in KeySets, cacheControl \in CacheControls :
          LET key == Prop(keys, ToStr(jwtHeader.kid))
              duration == cache_duration(cacheControl)
          IN  /\ io' = Append(io, FetchCall(KeysResponse(keys, cacheControl)))
              /\ IF ~Truthy(key)
                   THEN /\ Reject(Error("Token key ID is not in the Google API"))
                        /\ LeaveHeader
                        /\ UNCHANGED signingKey
                 ELSE IF kvGiven /\ JsGreater(duration, Num(0))
                   THEN /\ signingKey' = key
                        /\ cacheDuration' = duration
                        /\ pc' = "kv.put"
                        /\ UNCHANGED <<result, expectedKeyId>>
                   ELSE /\ signingKey' = key
                        /\ pc' = "verifyToken"
                        /\ LeaveHeader
                        /\ UNCHANGED result
  /\ UNCHANGED <<projectId, oauth2Token, kvGiven, checkRevoked, kv, clock, jwtBody, jwtHeader,
                 jwtSignedBy, tokenPayload>>
  /\ UNCHANGED outside

\* KvPut that tries the write again when it is rejected
KvPut_RetryOnFailure ==
  /\ pc = "kv.put"
  /\ \/ /\ io' = Append(io, KvPutCall(expectedKeyId, signingKey, cacheDuration, kvError))
        /\ UNCHANGED <<pc, result, kv, expectedKeyId, cacheDuration>>
     \/ /\ io' = Append(io, KvPutCall(expectedKeyId, signingKey, cacheDuration, Undef))
        /\ kv' = [kv EXCEPT ![expectedKeyId] = Entry(signingKey, cacheDuration)]
        /\ pc' = "verifyToken"
        /\ LeaveHeader
        /\ UNCHANGED result
  /\ UNCHANGED <<projectId, oauth2Token, kvGiven, checkRevoked, clock, jwtBody, jwtHeader,
                 jwtSignedBy, signingKey, tokenPayload>>
  /\ UNCHANGED outside

\* validateJwtHeader line 283: await kv.put(expectedKeyId, signingKey, { expirationTtl })
KvPut ==
  /\ pc = "kv.put"
  /\ \/ /\ io' = Append(io, KvPutCall(expectedKeyId, signingKey, cacheDuration, kvError))
        /\ Reject(kvError)
        /\ UNCHANGED kv
     \/ /\ io' = Append(io, KvPutCall(expectedKeyId, signingKey, cacheDuration, Undef))
        /\ kv' = [kv EXCEPT ![expectedKeyId] = Entry(signingKey, cacheDuration)]
        /\ pc' = "verifyToken"
        /\ UNCHANGED result
  /\ LeaveHeader
  /\ UNCHANGED <<projectId, oauth2Token, kvGiven, checkRevoked, clock, jwtBody, jwtHeader,
                 jwtSignedBy, signingKey, tokenPayload>>
  /\ UNCHANGED outside

\* VerifyToken that skips the lookup only when checkRevoked is given as false
VerifyToken_RevokedByDefault ==
  /\ pc = "verifyToken"
  /\ \E signedBy \in PrivateKeys, now \in clock..MaxClock :
       /\ jwtSignedBy' = signedBy
       /\ clock' = now
       /\ LET v == verifyToken(jwtBody, signedBy, signingKey, projectId, FloorSeconds(now))
          IN  IF ~v.ok
                THEN Reject(v.error) /\ UNCHANGED tokenPayload
                ELSE /\ tokenPayload' = v.payload
                     /\ IF checkRevoked # Bool(FALSE)
                          THEN pc' = "getTokenValidSinceTime" /\ UNCHANGED result
                          ELSE Resolve(v.payload)
  /\ UNCHANGED <<projectId, oauth2Token, kvGiven, checkRevoked, kv, jwtBody, jwtHeader,
                 expectedKeyId, signingKey, cacheDuration, io>>
  /\ UNCHANGED outside

\* lines 130-146 up to the lookup: verifyToken, then return unless checkRevoked === true;
\* jose reads the clock, which has not gone back since the call was made
VerifyToken ==
  /\ pc = "verifyToken"
  /\ \E signedBy \in PrivateKeys, now \in clock..MaxClock :
       /\ jwtSignedBy' = signedBy
       /\ clock' = now
       /\ LET v == verifyToken(jwtBody, signedBy, signingKey, projectId, FloorSeconds(now))
          IN  IF ~v.ok
                THEN Reject(v.error) /\ UNCHANGED tokenPayload
                ELSE /\ tokenPayload' = v.payload
                     /\ IF checkRevoked = Bool(TRUE)
                          THEN pc' = "getTokenValidSinceTime" /\ UNCHANGED result
                          ELSE Resolve(v.payload)
  /\ UNCHANGED <<projectId, oauth2Token, kvGiven, checkRevoked, kv, jwtBody, jwtHeader,
                 expectedKeyId, signingKey, cacheDuration, io>>
  /\ UNCHANGED outside

\* GetTokenValidSinceTime that catches a failed lookup and throws an error of its own
GetTokenValidSinceTime_Wrapped ==
  /\ pc = "getTokenValidSinceTime"
  /\ \E response \in {networkError, jsonError} \cup LookupBodies :
       /\ io' = Append(io, LookupCall(tokenPayload, oauth2Token, response))
       /\ IF response \in {networkError, jsonError}
            THEN Reject(Error("Account lookup failed: " \o response.message))
          ELSE LET since == validSinceOf(response)
               IN  IF ~since.ok THEN Reject(since.error)
                   ELSE IF isRevoked(tokenPayload, since.value)
                     THEN Reject(Error("Token is revoked"))
                     ELSE Resolve(tokenPayload)
  /\ UNCHANGED <<projectId, oauth2Token, kvGiven, checkRevoked, kv, clock, jwtBody, jwtHeader,
                 jwtSignedBy, expectedKeyId, signingKey, cacheDuration, tokenPayload>>
  /\ UNCHANGED outside

\* lines 136-146 with getTokenValidSinceTime: the account lookup and the comparison
GetTokenValidSinceTime ==
  /\ pc = "getTokenValidSinceTime"
  /\ \E response \in {networkError, jsonError} \cup LookupBodies :
       /\ io' = Append(io, LookupCall(tokenPayload, oauth2Token, response))
       /\ IF response \in {networkError, jsonError} THEN Reject(response)
          ELSE LET since == validSinceOf(response)
               IN  IF ~since.ok THEN Reject(since.error)
                   ELSE IF isRevoked(tokenPayload, since.value)
                     THEN Reject(Error("Token is revoked"))
                     ELSE Resolve(tokenPayload)
  /\ UNCHANGED <<projectId, oauth2Token, kvGiven, checkRevoked, kv, clock, jwtBody, jwtHeader,
                 jwtSignedBy, expectedKeyId, signingKey, cacheDuration, tokenPayload>>
  /\ UNCHANGED outside

Next ==
  \/ ValidateBody
  \/ DecodeHeader
  \/ KvGet
  \/ GetGooglePublicKeys
  \/ KvPut
  \/ VerifyToken
  \/ GetTokenValidSinceTime

Spec == Init /\ [][Next]_vars

(***************************************************************************)
(* validateJwtBody called on its own                                       *)
(***************************************************************************)
InitBody ==
  /\ pc = "validateJwtBody.call"
  /\ projectId \in ProjectIds
  /\ oauth2Token = "ya29.token"
  /\ kvGiven = FALSE
  /\ checkRevoked = Undef
  /\ kv = EmptyKV
  /\ clock \in 1..MaxClock
  /\ jwtBody \in AllBodies
  /\ jwtHeader = Unset
  /\ jwtSignedBy = Unread
  /\ expectedKeyId = Unset
  /\ signingKey = Unset
  /\ cacheDuration = Unset
  /\ tokenPayload = Unset
  /\ result = Pending
  /\ io = <<>>
  /\ NothingOutside

\* lines 185-235: the promise of validateJwtBody resolves with its result object
ApplyValidateJwtBody ==
  /\ pc = "validateJwtBody.call"
  /\ pc' = "validateJwtBody.done"
  /\ result' = Resolved(validateJwtBody(jwtBody, projectId, CeilSeconds(clock)))
  /\ UNCHANGED <<projectId, oauth2Token, kvGiven, checkRevoked, kv, clock, jwtBody, jwtHeader,
                 jwtSignedBy, expectedKeyId, signingKey, cacheDuration, tokenPayload, io>>
  /\ UNCHANGED outside

NextBody == ApplyValidateJwtBody

SpecBody == InitBody /\ [][NextBody]_vars

(***************************************************************************)
(* Properties                                                              *)
(***************************************************************************)
BodyDecoded == jwtBody \notin {Unset, Malformed}
HeaderDecoded == jwtHeader \notin {Unset, Malformed}
\* the signature of the token has been looked at
VerificationRan == jwtSignedBy # Unread
\* the body check of this call read the clock at StartClock
BodyResult == validateJwtBody(jwtBody, projectId, CeilSeconds(StartClock))
Lookups == {i \in 1..Len(io) : io[i].op = "lookup"}
RejectedWith(m) == result = Rejected(Error(m))

\* C1: once the body check and the key resolution have passed, a failure of the
\* cryptographic step (certificate not importable, signature not made by the resolved
\* key, issuer or audience re-check disagreeing) rejects with exactly "Token is invalid".
C1_CryptoFailureSaysTokenIsInvalid ==
  (/\ VerificationRan
   /\ \/ ~Importable(signingKey)
      \/ CertKey(signingKey) # jwtSignedBy
      \/ jwtBody.iss # Str(Issuer(projectId))
      \/ jwtBody.aud # Str(projectId))
    => RejectedWith("Token is invalid")

\* C2: a token that fails a body check is rejected with that check's message before
\* any I/O: the call is over, nothing was read from or written to the cache, no key set
\* was fetched and no account was looked up, whatever the cache and checkRevoked.
C2_BodyFailureBeforeAnyIO ==
  (BodyDecoded /\ ~BodyResult.isValid)
    => /\ pc = "done"
       /\ RejectedWith(BodyResult.errorMessage)
       /\ io = <<>>
       /\ kv \in InitialKVs

C2_Witness ==
  /\ pc = "done"
  /\ BodyDecoded
  /\ jwtBody.aud = Str(projectId)
  /\ jwtBody.exp = Num(1)
  /\ RejectedWith("Token expiration date is in the past")
  /\ checkRevoked = Bool(TRUE)
  /\ kvGiven
  /\ kv["googlePublicKey-k1"] # NoEntry
  /\ io = <<>>

AllDigits(chars) == chars # <<>> /\ \A i \in 1..Len(chars) : IsDigit(chars[i])
\* the lookup of this call returned a record whose validSince is a decimal string
LookedUpValidSince ==
  /\ io # <<>>
  /\ io[Len(io)].op = "lookup"
  /\ "users" \in DOMAIN io[Len(io)].response
  /\ io[Len(io)].response.users # <<>>
  /\ IsText(io[Len(io)].response.users[1].validSince)
  /\ AllDigits(io[Len(io)].response.users[1].validSince.text)
ValidSinceSeconds == ParseDigits(io[Len(io)].response.users[1].validSince.text, 0)

\* C3: with checkRevoked = true and a verified token carrying iat = T, the call rejects
\* with "Token is revoked" exactly when the looked-up validSince is greater than T, and
\* resolves otherwise (validSince = T included).
C3_RevokedExactlyWhenValidSinceAfterIat ==
  (/\ pc = "done"
   /\ checkRevoked = Bool(TRUE)
   /\ LookedUpValidSince
   /\ IsNum(tokenPayload.iat))
    => IF ValidSinceSeconds > tokenPayload.iat.num
         THEN RejectedWith("Token is revoked")
         ELSE result = Resolved(tokenPayload)

\* the lookup of this call returned no record, or a record without validSince
LookedUpNothing ==
  /\ io # <<>>
  /\ io[Len(io)].op = "lookup"
  /\ io[Len(io)].response \in LookupBodies
  /\ \/ "users" \notin DOMAIN io[Len(io)].response
     \/ io[Len(io)].response.users = <<>>
     \/ io[Len(io)].response.users[1].validSince = Undef

\* C4: with checkRevoked = true, a lookup that returns no record (users empty or
\* missing) or a record without validSince makes the call reject with an error other
\* than "Token is revoked"; the token is never accepted.
C4_MissingValidSinceRejects ==
  LookedUpNothing
    => /\ pc = "done"
       /\ result.state = "rejected"
       /\ result.reason.message # "Token is revoked"

C4_Witness ==
  /\ LookedUpNothing
  /\ checkRevoked = Bool(TRUE)
  /\ io[Len(io)].response = [users |-> <<>>]
  /\ RejectedWith("Token valid since time is not a string")

\* C5: an account lookup is sent only once the signature of the token has been
\* verified under the resolved key, and the subject it carries is the sub of the
\* verified payload.
C5_LookupOnlyForVerifiedSubject ==
  \A i \in Lookups :
    /\ VerificationRan
    /\ Importable(signingKey)
    /\ CertKey(signingKey) = jwtSignedBy
    /\ tokenPayload = jwtBody
    /\ io[i].localId = jwtBody.sub

C5_Witness ==
  /\ Lookups # {}
  /\ tokenPayload # Unset
  /\ io[Len(io)].localId = Str("u1")
  /\ result = Resolved(tokenPayload)

\* C6: a decodable token whose aud differs from the project id is rejected with the
\* audience message, before its header or signature is looked at and without touching
\* the cache, whatever its other claims.
C6_AudienceMismatchRejected ==
  (BodyDecoded /\ jwtBody.aud # Str(projectId))
    => /\ pc = "done"
       /\ RejectedWith(audienceMessage(projectId, jwtBody.aud))
       /\ jwtHeader = Unset
       /\ ~VerificationRan
       /\ io = <<>>

C6_Witness ==
  /\ pc = "done"
  /\ BodyDecoded
  /\ jwtBody.aud = Str("p2")
  /\ jwtBody.iss # Str(Issuer(projectId))
  /\ jwtBody.sub = Str("")
  /\ kv["googlePublicKey-k1"] # NoEntry
  /\ RejectedWith("Token audience does not match project ID, expected p1, got p2")

\* C7 as stated: every token whose iss differs from the expected issuer is rejected
\* with the issuer-mismatch message.
C7_IssuerMismatchAlwaysIssuerMessage ==
  (BodyDecoded /\ jwtBody.iss # Str(Issuer(projectId)))
    => /\ pc = "done"
       /\ RejectedWith(issuerMessage(projectId, jwtBody.iss))

\* C7 amended: every token whose iss differs from the expected issuer is rejected; the
\* message is the issuer-mismatch message when aud is the project id and sub is a
\* non-empty string, and the message of the earlier failing check otherwise.
C7_IssuerMismatchRejected ==
  (BodyDecoded /\ jwtBody.iss # Str(Issuer(projectId)))
    => /\ pc = "done"
       /\ IF jwtBody.aud # Str(projectId)
            THEN RejectedWith(audienceMessage(projectId, jwtBody.aud))
          ELSE IF ~IsStr(jwtBody.sub) THEN RejectedWith("Token subject is not a string")
          ELSE IF jwtBody.sub = Str("") THEN RejectedWith("Token subject is empty")
          ELSE RejectedWith(issuerMessage(projectId, jwtBody.iss))

C7_Witness ==
  /\ pc = "done"
  /\ BodyDecoded
  /\ jwtBody.aud = Str(projectId)
  /\ jwtBody.sub = Str("u1")
  /\ jwtBody.iss = Str("https://evil.com")
  /\ RejectedWith("Token issuer does not match project ID, expected "
                    \o "https://securetoken.google.com/p1, got https://evil.com")

\* the eight checks as the claim lists them, on the claims of a payload
FirstFailingCheck(body, p, ct) ==
  IF body.aud # Str(p) THEN Invalid(audienceMessage(p, body.aud))
  ELSE IF ~IsStr(body.sub) THEN Invalid("Token subject is not a string")
  ELSE IF body.sub = Str("") THEN Invalid("Token subject is empty")
  ELSE IF body.iss # Str(Issuer(p)) THEN Invalid(issuerMessage(p, body.iss))
  ELSE IF body.exp # Undef /\ body.exp.num < ct
    THEN Invalid("Token expiration date is in the past")
  ELSE IF body.iat # Undef /\ body.iat.num > ct
    THEN Invalid("Token issued at date is in the future")
  ELSE IF body.auth_time # Undef /\ ~IsNum(body.auth_time)
    THEN Invalid("Token auth time is not a number")
  ELSE IF IsNum(body.auth_time) /\ body.auth_time.num > ct
    THEN Invalid("Token auth time is in the future")
  ELSE Valid

\* C8: validateJwtBody returns the message of the first failing check in the order
\* audience, sub is a string, sub non-empty, issuer, exp, iat, auth_time is a number,
\* auth_time not in the future, and isValid = true only when none fails.
C8_FirstFailingCheckWins ==
  pc = "validateJwtBody.done"
    => result = Resolved(FirstFailingCheck(jwtBody, projectId, CeilSeconds(clock)))

\* C9: a token with valid claims whose header alg is not RS256 is rejected with
\* "Token algorithm is not RS256" before any cache read or key-set fetch.
C9_OtherAlgorithmRejectedBeforeIO ==
  (HeaderDecoded /\ jwtHeader.alg # Str("RS256"))
    => /\ BodyResult.isValid
       /\ pc = "done"
       /\ RejectedWith("Token algorithm is not RS256")
       /\ io = <<>>
       /\ ~VerificationRan

C9_Witness ==
  /\ pc = "done"
  /\ HeaderDecoded
  /\ jwtHeader.alg = Str("HS256")
  /\ jwtHeader.kid = Str("k1")
  /\ kvGiven
  /\ kv["googlePublicKey-k1"] = Entry(Str("cert1"), Undef)
  /\ RejectedWith("Token algorithm is not RS256")
  /\ io = <<>>

\* header validation has returned isValid = true for this token
HeaderAccepted == pc = "verifyToken" \/ VerificationRan

Gets == {i \in 1..Len(io) : io[i].op = "kv.get"}
Fetches == {i \in 1..Len(io) : io[i].op = "fetch"}
Puts == {i \in 1..Len(io) : io[i].op = "kv.put"}

\* C11: when the cache read of a call returns a certificate (the cache is supplied and
\* holds one under "googlePublicKey-{kid}" for the kid of the token, whose alg is RS256),
\* header validation returns isValid = true with exactly that certificate, no request
\* goes to the key source and nothing is written to the cache.
C11_CacheHitReturnsCachedCertificate ==
  \A i \in Gets :
    Truthy(io[i].response)
      => /\ kvGiven
         /\ io[i].key = "googlePublicKey-" \o ToStr(jwtHeader.kid)
         /\ kv[io[i].key] # NoEntry
         /\ kv[io[i].key].value = io[i].response
         /\ HeaderAccepted
         /\ signingKey = io[i].response
         /\ Fetches = {}
         /\ Puts = {}
         /\ kv \in InitialKVs

C11_Witness ==
  /\ Gets = {1}
  /\ io[1] = KvGetCall("googlePublicKey-k1", Str("mock-certificate"))
  /\ jwtHeader.kid = Str("k1")
  /\ HeaderAccepted
  /\ signingKey = Str("mock-certificate")
  /\ Len(io) = 1

\* the max-age directive of a cache-control header value: the digits that follow
\* "max-age=", Undef when the header or the directive is missing or carries no number
AdvertisedMaxAge(cacheControl) ==
  IF cacheControl = Null THEN Undef
  ELSE LET chars == cacheControl.text
           At == {i \in 1..(Len(chars) - 1) : chars[i] = "max-age" /\ chars[i + 1] = "="}
       IN  IF At = {} THEN Undef
           ELSE LET first == CHOOSE i \in At : \A j \in At : i <= j
                    rest == SubSeq(chars, first + 2, Len(chars))
                IN  IF rest = <<>> \/ ~IsDigit(rest[1]) THEN Undef
                    ELSE Num(ParseDigits(rest, 0))

\* the key set and header the key source answered the fetch of this call with
FetchedKeys == io[CHOOSE i \in Fetches : TRUE].response
KeysFetched == Fetches # {} /\ "keys" \in DOMAIN FetchedKeys
PutFailed == \E i \in Puts : io[i].response = kvError

\* C12: on a cache miss with a cache supplied and a key set that contains the kid of the
\* token, header validation returns the fetched certificate; when the response
\* advertises max-age = N with N > 0 the cache afterwards holds that certificate under
\* "googlePublicKey-{kid}" with expirationTtl = N, and when max-age is 0 or missing
\* nothing is stored.  (Stated for calls whose cache write, if any, succeeded.)
C12_FetchedKeyCachedForMaxAge ==
  (/\ kvGiven
   /\ KeysFetched
   /\ ToStr(jwtHeader.kid) \in DOMAIN FetchedKeys.keys
   /\ pc # "kv.put"
   /\ ~PutFailed)
    => LET N == AdvertisedMaxAge(FetchedKeys.cacheControl)
           certificate == FetchedKeys.keys[ToStr(jwtHeader.kid)]
           key == "googlePublicKey-" \o ToStr(jwtHeader.kid)
       IN  /\ HeaderAccepted
           /\ signingKey = certificate
           /\ IF IsNum(N) /\ N.num > 0
                THEN kv[key] = Entry(certificate, N)
                ELSE Puts = {} /\ kv[key] = NoEntry

C14_CachePutFailureDoesNotFailVerification ==
  PutFailed
    => /\ signingKey = FetchedKeys.keys[ToStr(jwtHeader.kid)]
       /\ result # Rejected(kvError)
       /\ pc = "done" => VerificationRan

\* C15: a network error raised by the key-set fetch or by the account lookup ends the
\* call: the promise rejects with that very error object, the failed call is the last
\* collaborator call made and it was made once.
C15_NetworkErrorPropagates ==
  \A i \in Fetches \cup Lookups :
    io[i].response = networkError
      => /\ i = Len(io)
         /\ pc = "done"
         /\ result = Rejected(networkError)
         /\ Cardinality({j \in 1..Len(io) : io[j].op = io[i].op}) = 1

C15_Witness ==
  /\ Lookups # {}
  /\ io[Len(io)].op = "lookup"
  /\ io[Len(io)].response = networkError
  /\ Puts # {}
  /\ result = Rejected(networkError)

C15_WitnessFetch ==
  /\ Fetches = {Len(io)}
  /\ io[Len(io)].response = networkError
  /\ checkRevoked = Bool(FALSE)
  /\ result = Rejected(networkError)

\* the second in which the call is made
NowSeconds == FloorSeconds(StartClock)

\* C16: a token with aud = projectId, iss = the issuer of the project, a non-empty
\* string sub, iat = now, exp far after now and alg RS256, signed with the key whose
\* certificate the key source serves under the kid of the token, is accepted when
\* checkRevoked is not true: the call resolves with the decoded claims of that token,
\* sub, aud and iss included.  (Stated for calls in which no cache operation failed.)
C16_ValidTokenResolvesWithItsClaims ==
  (/\ pc = "done"
   /\ BodyDecoded
   /\ jwtBody.aud = Str(projectId)
   /\ jwtBody.iss = Str(Issuer(projectId))
   /\ jwtBody.sub = Str("u1")
   /\ jwtBody.iat = Num(NowSeconds)
   /\ jwtBody.exp = Num(MaxTime)
   /\ jwtBody.auth_time \in {Undef, Num(NowSeconds)}
   /\ HeaderDecoded
   /\ jwtHeader.alg = Str("RS256")
   /\ checkRevoked # Bool(TRUE)
   /\ KeysFetched
   /\ ToStr(jwtHeader.kid) \in DOMAIN FetchedKeys.keys
   /\ ~PutFailed)
    => /\ VerificationRan
       /\ CertKey(FetchedKeys.keys[ToStr(jwtHeader.kid)]) = jwtSignedBy
            => /\ result.state = "fulfilled"
               /\ result.value = jwtBody
               /\ result.value.sub = Str("u1")
               /\ result.value.aud = Str(projectId)
               /\ result.value.iss = Str(Issuer(projectId))
               /\ Lookups = {}

C16_Witness ==
  /\ pc = "done"
  /\ HeaderDecoded
  /\ jwtHeader.kid = Str("k1")
  /\ ~kvGiven
  /\ checkRevoked = Undef
  /\ KeysFetched
  /\ FetchedKeys.keys = [n \in {"k1"} |-> Str("cert1")]
  /\ jwtSignedBy = "key1"
  /\ jwtBody.iat = Num(NowSeconds)
  /\ jwtBody.exp = Num(MaxTime)
  /\ result = Resolved(jwtBody)

\* the key the call resolved is the one held for the kid of the token: the cached
\* value under "googlePublicKey-{kid}" or else the property kid of the fetched key set
ResolvedForKid ==
  \/ \E i \in Gets : /\ io[i].key = "googlePublicKey-" \o ToStr(jwtHeader.kid)
                      /\ Truthy(io[i].response)
                      /\ signingKey = io[i].response
  \/ /\ KeysFetched
     /\ ToStr(jwtHeader.kid) \in DOMAIN FetchedKeys.keys
     /\ signingKey = FetchedKeys.keys[ToStr(jwtHeader.kid)]

\* the account lookup of this call returned a validSince that is not after iat
ComparedNotRevoked ==
  /\ Cardinality(Lookups) = 1
  /\ io[Len(io)].op = "lookup"
  /\ io[Len(io)].response \in LookupBodies
  /\ validSinceOf(io[Len(io)].response).ok
  /\ ~JsGreater(validSinceOf(io[Len(io)].response).value, jwtBody.iat)

\* C17: verification is all-or-nothing.  Whenever the call resolves, the value is the
\* claims of a token that passed every step: aud is the project id, iss the expected
\* issuer, sub a non-empty string, the signature verified under the key resolved for
\* the kid of the token, and with checkRevoked = true the comparison validSince > iat
\* was made and was false.  A call that is over and did not resolve has rejected.
C17_AllOrNothing ==
  /\ pc = "done" => result.state \in {"fulfilled", "rejected"}
  /\ pc # "done" => result = Pending
  /\ result.state = "fulfilled"
       => /\ BodyDecoded
          /\ result.value = jwtBody
          /\ jwtBody.aud = Str(projectId)
          /\ jwtBody.iss = Str(Issuer(projectId))
          /\ IsStr(jwtBody.sub) /\ jwtBody.sub # Str("")
          /\ HeaderDecoded
          /\ ResolvedForKid
          /\ VerificationRan
          /\ Importable(signingKey)
          /\ CertKey(signingKey) = jwtSignedBy
          /\ IF checkRevoked = Bool(TRUE) THEN ComparedNotRevoked ELSE Lookups = {}

\* the payload passes the audience, subject and issuer checks
PassesIdentityChecks(body, p) ==
  /\ body.aud = Str(p)
  /\ IsStr(body.sub) /\ body.sub # Str("")
  /\ body.iss = Str(Issuer(p))

\* C18: validateJwtBody returns "Token expiration date is in the past" for every token
\* that passes the audience, subject and issuer checks and carries an integer exp, 0
\* included, smaller than the current time in seconds rounded up; with exp equal to
\* that second or later it does not return that message.
C18_ExpiredRejected ==
  (/\ pc = "validateJwtBody.done"
   /\ PassesIdentityChecks(jwtBody, projectId)
   /\ IsNum(jwtBody.exp))
    => IF jwtBody.exp.num < CeilSeconds(clock)
         THEN result = Resolved(Invalid("Token expiration date is in the past"))
         ELSE result # Resolved(Invalid("Token expiration date is in the past"))

\* C19: validateJwtBody returns "Token issued at date is in the future" for every token
\* that the earlier checks (audience, subject, issuer, expiry) did not reject and whose
\* iat is greater than the current time in seconds rounded up; with iat equal to that
\* second, or earlier, it does not return that message.
C19_FutureIatRejected ==
  (/\ pc = "validateJwtBody.done"
   /\ PassesIdentityChecks(jwtBody, projectId)
   /\ result # Resolved(Invalid("Token expiration date is in the past"))
   /\ IsNum(jwtBody.iat))
    => IF jwtBody.iat.num > CeilSeconds(clock)
         THEN result = Resolved(Invalid("Token issued at date is in the future"))
         ELSE result # Resolved(Invalid("Token issued at date is in the future"))

C19_Witness ==
  /\ pc = "validateJwtBody.done"
  /\ clock = StartClock
  /\ jwtBody.iat = Num(CeilSeconds(StartClock) + 1)
  /\ jwtBody.exp = Num(MaxTime)
  /\ jwtBody.auth_time = Num(MaxTime)
  /\ result = Resolved(Invalid("Token issued at date is in the future"))

C19_WitnessSameSecond ==
  /\ pc = "validateJwtBody.done"
  /\ clock = StartClock
  /\ jwtBody.iat = Num(CeilSeconds(StartClock))
  /\ result = Resolved(Valid)

\* collaborator calls of this call that threw
FailedCalls == {i \in 1..Len(io) : io[i].response \in {kvError, networkError, jsonError}}

\* the signing key as the answers of the cache and the key source determine it
KeyFromResponses ==
  IF \E i \in Gets : Truthy(io[i].response)
    THEN io[CHOOSE i \in Gets : Truthy(io[i].response)].response
  ELSE IF KeysFetched THEN Prop(FetchedKeys.keys, ToStr(jwtHeader.kid))
  ELSE Undef

\* the outcome of a finished call without revocation check, as a function of the
\* token, the project id, the answers of the cache and the key source and the clock
OutcomeWithoutLookup ==
  IF jwtBody = Malformed THEN Rejected(decodeError)
  ELSE IF ~BodyResult.isValid THEN Rejected(Error(BodyResult.errorMessage))
  ELSE IF jwtHeader = Malformed THEN Rejected(decodeError)
  ELSE IF jwtHeader.alg # Str("RS256") THEN Rejected(Error("Token algorithm is not RS256"))
  ELSE IF FailedCalls # {} THEN Rejected(io[CHOOSE i \in FailedCalls : TRUE].response)
  ELSE IF ~Truthy(KeyFromResponses) THEN Rejected(Error("Token key ID is not in the Google API"))
  ELSE LET v == verifyToken(jwtBody, jwtSignedBy, KeyFromResponses, projectId,
                            FloorSeconds(clock))
       IN  IF v.ok THEN Resolved(v.payload) ELSE Rejected(v.error)

\* C20: when checkRevoked is omitted or false the call makes no account lookup, no
\* collaborator call carries the management credential, and the outcome is determined
\* by the other inputs and the collaborator responses alone, hence the same for any two
\* values of the credential.
C20_CredentialUnusedWithoutCheckRevoked ==
  checkRevoked # Bool(TRUE)
    => /\ Lookups = {}
       /\ \A i \in 1..Len(io) : "authorization" \notin DOMAIN io[i]
       /\ pc # "getTokenValidSinceTime"
       /\ pc = "done" => result = OutcomeWithoutLookup

C20_Witness ==
  /\ pc = "done"
  /\ checkRevoked = Undef
  /\ oauth2Token = "ya29.other"
  /\ Fetches # {}
  /\ Lookups = {}
  /\ result = Resolved(jwtBody)
  /\ result = OutcomeWithoutLookup

\* position of the kind of collaborator call in the order the handler makes them
CallRank(op) ==
  IF op = "kv.get" THEN 1 ELSE IF op = "fetch" THEN 2 ELSE IF op = "kv.put" THEN 3 ELSE 4

\* C21: within one call every collaborator is invoked at most once, the calls are made
\* one after another in the order cache get, key-set fetch, cache put, account lookup
\* (one call per step, the next only after the previous has answered), and a call that
\* failed is the last call made.
C21_EachCollaboratorOnceInSequence ==
  /\ Cardinality(Gets) <= 1
  /\ Cardinality(Fetches) <= 1
  /\ Cardinality(Puts) <= 1
  /\ Cardinality(Lookups) <= 1
  /\ \A i \in 1..Len(io) : \A j \in 1..Len(io) :
       i < j => CallRank(io[i].op) < CallRank(io[j].op)
  /\ \A i \in FailedCalls : i = Len(io) /\ pc = "done" /\ result = Rejected(io[i].response)

C21_Witness ==
  /\ Len(io) = 4
  /\ io[1].op = "kv.get"
  /\ io[2].op = "fetch"
  /\ io[3].op = "kv.put"
  /\ io[4].op = "lookup"
  /\ io[4].response = jsonError
  /\ result = Rejected(jsonError)

\* the state of the call in the state-machine view of the handler
Phase ==
  IF pc = "validateJwtBody" THEN "Received"
  ELSE IF pc \in {"validateJwtHeader", "kv.get", "getGooglePublicKeys", "kv.put"}
    THEN "BodyChecked"
  ELSE IF pc = "verifyToken" THEN "KeyResolved"
  ELSE IF pc = "getTokenValidSinceTime" THEN "SignatureVerified"
  ELSE IF result.state = "fulfilled" THEN "Accepted"
  ELSE "Rejected"

\* the states a step may lead to; a step from KeyResolved that accepts has verified the
\* signature on its way, a step from SignatureVerified that accepts has checked revocation
PhaseStep ==
  /\ Phase = "Received" => Phase' \in {"BodyChecked", "Rejected"}
  /\ Phase = "BodyChecked" => Phase' \in {"BodyChecked", "KeyResolved", "Rejected"}
  /\ Phase = "KeyResolved"
       => /\ VerificationRan'
          /\ Phase' \in {"SignatureVerified", "Accepted", "Rejected"}
          /\ Phase' = "SignatureVerified" => checkRevoked = Bool(TRUE)
          /\ Phase' = "Accepted" => checkRevoked # Bool(TRUE)
  /\ Phase = "SignatureVerified"
       => /\ checkRevoked = Bool(TRUE)
          /\ Lookups' # {}
          /\ Phase' \in {"Accepted", "Rejected"}
  /\ Phase \in {"Accepted", "Rejected"} => UNCHANGED vars
  /\ result.state = "rejected" => UNCHANGED vars

\* an accepted call has checked the body, resolved a key and verified the signature, and
\* a call whose promise is settled is in a terminal state
AcceptedSkippedNothing ==
  /\ Phase = "Accepted"
       => /\ BodyDecoded /\ BodyResult.isValid
          /\ HeaderDecoded /\ Truthy(signingKey)
          /\ VerificationRan
          /\ checkRevoked = Bool(TRUE) <=> Lookups # {}
  /\ result # Pending <=> Phase \in {"Accepted", "Rejected"}
  /\ Phase \in {"Received", "BodyChecked", "KeyResolved"} => Lookups = {} /\ ~VerificationRan

\* C22: a call moves through Received, BodyChecked, KeyResolved, SignatureVerified,
\* RevocationChecked (only with checkRevoked = true), Accepted in that order; Rejected is
\* entered from any non-terminal state, Accepted and Rejected are terminal, nothing runs
\* after a rejection, and the account lookup is made only between SignatureVerified and
\* the end of a call with checkRevoked = true.
C22_StatesInOrder == [][PhaseStep]_vars /\ []AcceptedSkippedNothing

C22_Witness ==
  /\ Phase = "Accepted"
  /\ checkRevoked = Bool(TRUE)
  /\ kvGiven
  /\ Len(io) = 4

\* the cache supplied to this call was empty when the call was made: what it holds now
\* is what the call put
CacheWasEmpty == \A k \in DOMAIN kv : kv[k] # NoEntry => \E i \in Puts : io[i].key = k

\* a call of the cache threw
CacheFailed == \E i \in Gets \cup Puts : io[i].response = kvError

\* the outcome of a finished call as a function of the token, the project id, the
\* answers of the key source and of the account lookup and the clock; the cache does
\* not occur in it
OutcomeFromKeySource ==
  IF jwtBody = Malformed THEN Rejected(decodeError)
  ELSE IF ~BodyResult.isValid THEN Rejected(Error(BodyResult.errorMessage))
  ELSE IF jwtHeader = Malformed THEN Rejected(decodeError)
  ELSE IF jwtHeader.alg # Str("RS256") THEN Rejected(Error("Token algorithm is not RS256"))
  ELSE IF ~KeysFetched THEN Rejected(FetchedKeys)
  ELSE IF ~Truthy(Prop(FetchedKeys.keys, ToStr(jwtHeader.kid)))
    THEN Rejected(Error("Token key ID is not in the Google API"))
  ELSE LET v == verifyToken(jwtBody, jwtSignedBy, FetchedKeys.keys[ToStr(jwtHeader.kid)],
                            projectId, FloorSeconds(clock))
       IN  IF ~v.ok THEN Rejected(v.error)
           ELSE IF checkRevoked # Bool(TRUE) THEN Resolved(v.payload)
           ELSE LET response == io[Len(io)].response
                IN  IF response \in {networkError, jsonError} THEN Rejected(response)
                    ELSE IF ~validSinceOf(response).ok THEN Rejected(validSinceOf(response).error)
                    ELSE IF isRevoked(v.payload, validSinceOf(response).value)
                      THEN Rejected(Error("Token is revoked"))
                      ELSE Resolved(v.payload)

\* C24: without a cache every key resolution that passes the algorithm check fetches
\* the key set, and the outcome of the call is determined by the token, the key-source
\* response and the other inputs exactly as it is with an empty cache supplied (whose
\* operations succeed): both are OutcomeFromKeySource.
C24_NoCacheSameAsEmptyCache ==
  (~kvGiven \/ (CacheWasEmpty /\ ~CacheFailed))
    => /\ (HeaderDecoded /\ jwtHeader.alg = Str("RS256")
             /\ pc \notin {"kv.get", "getGooglePublicKeys"})
            => Cardinality(Fetches) = 1
       /\ ~kvGiven => Gets = {} /\ Puts = {}
       /\ pc = "done" => result = OutcomeFromKeySource

C24_Witness ==
  /\ ~kvGiven
  /\ pc = "done"
  /\ Cardinality(Fetches) = 1
  /\ checkRevoked = Bool(TRUE)
  /\ result = Resolved(jwtBody)
  /\ result = OutcomeFromKeySource

C24_WitnessEmptyCache ==
  /\ kvGiven
  /\ CacheWasEmpty
  /\ Puts # {}
  /\ pc = "done"
  /\ checkRevoked = Bool(TRUE)
  /\ result = Resolved(jwtBody)
  /\ result = OutcomeFromKeySource

\* C27: with checkRevoked = true a call never resolves for a token whose subject has a
\* looked-up validSince later than the issue time of the token; a token without iat, or
\* with iat = 0, is not accepted while validSince is positive.
C27_NoAcceptanceWhenValidSinceLater ==
  (/\ checkRevoked = Bool(TRUE)
   /\ LookedUpValidSince
   /\ result.state = "fulfilled")
    => IF IsNum(jwtBody.iat)
         THEN ValidSinceSeconds <= jwtBody.iat.num
         ELSE ValidSinceSeconds <= 0

(***************************************************************************)
(* validateJwtHeader calls running concurrently on one cache               *)
(***************************************************************************)
NumCalls == 2
CallIds == 1..NumCalls

\* headers of the tokens being resolved
CallHeaders ==
  [alg : {Str("RS256"), Str("HS256")}, typ : {Str("JWT")}, kid : {Str("k1"), Str("k2")}]

\* key sets the key source may serve: a certificate for some of the kids
ServedKeySets == UNION {[S -> ServedCerts] : S \in SUBSET {"k1", "k2"}}

\* cache-control headers the key source sends with them
CallCacheControls ==
  {Null, Text(<<"max-age", "=", "6", "0">>), Text(<<"max-age", "=", "0">>)}

\* caches filled from the key set: each entry absent or the served certificate
CachesOf(keys) ==
  {store \in [CacheKeys -> {NoEntry} \cup {Entry(c, Undef) : c \in ServedCerts}] :
     \A k \in CacheKeys :
       store[k] # NoEntry
         => \E n \in DOMAIN keys : k = "googlePublicKey-" \o n /\ store[k].value = keys[n]}

\* the frame of a validateJwtHeader call when it is made
Frame(header) ==
  [pc |-> "validateJwtHeader", header |-> header, got |-> Unset, fetched |-> Unset,
   returned |-> Unset]

\* return { isValid: true, signingKey }
Accepted(key) == [isValid |-> TRUE, signingKey |-> key]
\* a rejected promise of validateJwtHeader
Threw(e) == [thrown |-> e]

InitCache ==
  /\ pc = "validateJwtHeader.calls"
  /\ projectId \in ProjectIds
  /\ oauth2Token = "ya29.token"
  /\ kvGiven = TRUE
  /\ checkRevoked = Undef
  /\ served \in ServedKeySets
  /\ kv \in CachesOf(served)
  /\ clock = StartClock
  /\ jwtBody = Unset
  /\ jwtHeader = Unset
  /\ jwtSignedBy = Unread
  /\ expectedKeyId = Unset
  /\ signingKey = Unset
  /\ cacheDuration = Unset
  /\ tokenPayload = Unset
  /\ result = Pending
  /\ io = <<>>
  /\ calls \in [CallIds -> {Frame(h) : h \in CallHeaders}]
  /\ accounts = <<>>
  /\ instance = <<>>
  /\ callers = <<>>
  /\ tokenKv = Null

\* what a step of a validateJwtHeader call leaves alone besides the cache
CallFrame ==
  UNCHANGED <<pc, projectId, oauth2Token, kvGiven, checkRevoked, clock, jwtBody, jwtHeader,
              jwtSignedBy, expectedKeyId, signingKey, cacheDuration, tokenPayload, result, io,
              served, accounts, instance, callers, tokenKv>>

\* the call returns or throws
Return(c, value) == calls' = [calls EXCEPT ![c].pc = "returned", ![c].returned = value]

\* lines 254-262: decode the header, check alg
CallDecodeHeader(c) ==
  /\ calls[c].pc = "validateJwtHeader"
  /\ IF calls[c].header.alg # Str("RS256")
       THEN Return(c, Invalid("Token algorithm is not RS256"))
       ELSE calls' = [calls EXCEPT ![c].pc = "kv.get"]
  /\ UNCHANGED kv
  /\ CallFrame

\* CallKvGet that takes whichever certificate the cache holds, whatever its key
CallKvGet_AnyEntry(c) ==
  /\ calls[c].pc = "kv.get"
  /\ \/ Return(c, Threw(kvError))
     \/ IF \E k \in CacheKeys : kv[k] # NoEntry
          THEN \E k \in CacheKeys :
                 /\ kv[k] # NoEntry
                 /\ calls' = [calls EXCEPT ![c].pc = "returned",
                                            ![c].got = kv[k].value,
                                            ![c].returned = Accepted(kv[k].value)]
          ELSE calls' = [calls EXCEPT ![c].pc = "getGooglePublicKeys", ![c].got = Null]
  /\ UNCHANGED kv
  /\ CallFrame

\* lines 264-269: await kv.get(expectedKeyId)
CallKvGet(c) ==
  /\ calls[c].pc = "kv.get"
  /\ \/ Return(c, Threw(kvError))
     \/ LET googlePublicKey == KvValue(kv, KeyIdOf(calls[c].header))
        IN  IF Truthy(googlePublicKey)
              THEN calls' = [calls EXCEPT ![c].pc = "returned",
                                          ![c].got = googlePublicKey,
                                          ![c].returned = Accepted(googlePublicKey)]
              ELSE calls' = [calls EXCEPT ![c].pc = "getGooglePublicKeys",
                                          ![c].got = googlePublicKey]
  /\ UNCHANGED kv
  /\ CallFrame

\* lines 273-287 with getGooglePublicKeys, up to the put
CallGetGooglePublicKeys(c) ==
  /\ calls[c].pc = "getGooglePublicKeys"
  /\ \/ Return(c, Threw(networkError))
     \/ \E cacheControl \in CallCacheControls :
          LET key == Prop(served, ToStr(calls[c].header.kid))
              response == KeysResponse(served, cacheControl)
          IN  IF ~Truthy(key)
                THEN calls' = [calls EXCEPT
                                 ![c].pc = "returned",
                                 ![c].fetched = response,
                                 ![c].returned = Invalid("Token key ID is not in the Google API")]
              ELSE IF JsGreater(cache_duration(cacheControl), Num(0))
                THEN calls' = [calls EXCEPT ![c].pc = "kv.put", ![c].fetched = response]
                ELSE calls' = [calls EXCEPT ![c].pc = "returned",
                                            ![c].fetched = response,
                                            ![c].returned = Accepted(key)]
  /\ UNCHANGED kv
  /\ CallFrame

\* CallKvPut that stores every certificate of the fetched key set
CallKvPut_WholeSet(c) ==
  /\ calls[c].pc = "kv.put"
  /\ LET keys == calls[c].fetched.keys
         ttl == cache_duration(calls[c].fetched.cacheControl)
     IN  \/ Return(c, Threw(kvError)) /\ UNCHANGED kv
         \/ /\ kv' = [k \in CacheKeys |->
                        IF \E n \in DOMAIN keys : k = "googlePublicKey-" \o n
                          THEN Entry(keys[CHOOSE n \in DOMAIN keys : k = "googlePublicKey-" \o n],
                                     ttl)
                          ELSE kv[k]]
            /\ Return(c, Accepted(keys[ToStr(calls[c].header.kid)]))
  /\ CallFrame

\* lines 280-287: await kv.put(expectedKeyId, signingKey, { expirationTtl }), then return
CallKvPut(c) ==
  /\ calls[c].pc = "kv.put"
  /\ LET key == calls[c].fetched.keys[ToStr(calls[c].header.kid)]
         ttl == cache_duration(calls[c].fetched.cacheControl)
     IN  \/ Return(c, Threw(kvError)) /\ UNCHANGED kv
         \/ /\ kv' = [kv EXCEPT ![KeyIdOf(calls[c].header)] = Entry(key, ttl)]
            /\ Return(c, Accepted(key))
  /\ CallFrame

NextCache ==
  \E c \in CallIds :
    \/ CallDecodeHeader(c)
    \/ CallKvGet(c)
    \/ CallGetGooglePublicKeys(c)
    \/ CallKvPut(c)

SpecCache == InitCache /\ [][NextCache]_vars

(***************************************************************************)
(* Properties of the concurrent calls                                      *)
(***************************************************************************)
\* the call resolves a key: its token passed the algorithm check
Resolves(c) == calls[c].header.alg = Str("RS256")
\* the kid of the token the call resolves
KidOf(c) == ToStr(calls[c].header.kid)
\* the call ended because the cache or the key source failed
CallFailed(c) == calls[c].returned \in {Threw(kvError), Threw(networkError)}

\* C23: however concurrent resolutions of one kid interleave on the shared
\* cache, each resolution whose cache and fetch operations succeed returns the
\* certificate the key source serves for that kid, and the entry
\* "googlePublicKey-{kid}" is at every moment absent or that certificate.
C23_RacingResolutionsAgree ==
  \A n \in DOMAIN served :
    /\ kv["googlePublicKey-" \o n] # NoEntry => kv["googlePublicKey-" \o n].value = served[n]
    /\ \A c \in CallIds :
         (Resolves(c) /\ KidOf(c) = n /\ calls[c].pc = "returned" /\ ~CallFailed(c))
           => calls[c].returned = Accepted(served[n])

\* two resolutions of the same kid both missed, both fetched, both wrote
C23_Witness ==
  /\ "k1" \in DOMAIN served
  /\ \A c \in CallIds :
       /\ Resolves(c) /\ KidOf(c) = "k1"
       /\ calls[c].got = Null
       /\ calls[c].fetched # Unset
       /\ JsGreater(cache_duration(calls[c].fetched.cacheControl), Num(0))
       /\ calls[c].returned = Accepted(served["k1"])
  /\ kv["googlePublicKey-k1"] # NoEntry
  /\ kv["googlePublicKey-k1"].value = served["k1"]

\* the step is a cache write the code makes: call c puts the certificate it
\* fetched for its own kid, after a miss and with a positive cache duration
PutBy(c) ==
  /\ calls[c].pc = "kv.put"
  /\ Resolves(c)
  /\ ~Truthy(calls[c].got)
  /\ calls[c].fetched # Unset
  /\ KidOf(c) \in DOMAIN calls[c].fetched.keys
  /\ JsGreater(cache_duration(calls[c].fetched.cacheControl), Num(0))
  /\ kv' = [kv EXCEPT !["googlePublicKey-" \o KidOf(c)] =
                        Entry(calls[c].fetched.keys[KidOf(c)],
                              cache_duration(calls[c].fetched.cacheControl))]

\* the step ends call c with a failure or a cache hit
EndsWithoutFetchedKey(c) ==
  /\ calls[c].pc # "returned"
  /\ calls'[c].pc = "returned"
  /\ \/ calls'[c].returned \notin {Accepted(k) : k \in ServedCerts}
     \/ calls'[c].fetched = Unset

CacheWriteStep ==
  /\ \A k \in CacheKeys : kv[k] # NoEntry => kv'[k] # NoEntry
  /\ kv' # kv => \E c \in CallIds : PutBy(c)
  /\ \A c \in CallIds : EndsWithoutFetchedKey(c) => kv' = kv

\* C28: every change of the cache is a put of "googlePublicKey-K" with the
\* certificate the key source returned for K in the same call, K being the kid
\* of the call's token, made after a miss, a fetch containing K and a positive
\* cache duration; a step that ends a call with a failure or a cache hit
\* leaves the cache unchanged, and no entry is ever removed.
C28_OnlyWriteIsPutOfFetchedKey == [][CacheWriteStep]_vars

\* one call wrote its fetched certificate while another failed on its kid
C28_Witness ==
  \E c, d \in CallIds :
    /\ calls[c].pc = "returned" /\ calls[c].fetched # Unset
    /\ calls[c].returned \in {Accepted(k) : k \in ServedCerts}
    /\ kv["googlePublicKey-" \o KidOf(c)] # NoEntry
    /\ kv["googlePublicKey-" \o KidOf(c)].expirationTtl = Num(60)
    /\ calls[d].returned = Invalid("Token key ID is not in the Google API")
    /\ kv["googlePublicKey-" \o KidOf(d)] = NoEntry

(***************************************************************************)
(* revokeRefreshTokensHandler, followed by verification with checkRevoked  *)
(***************************************************************************)
MaxEvents == 2
Uids == {"u1", "u2"}

\* Number.prototype.toString() of a non-negative integer
RECURSIVE DecimalText(_)
DecimalText(n) ==
  IF n < 10 THEN <<Digits[n + 1]>> ELSE DecimalText(n \div 10) \o <<Digits[(n % 10) + 1]>>

\* values of the uid argument
UidArguments == {Undef, Str("")} \cup {Str(u) : u \in Uids}

\* what the accounts:update request gets back
UpdateOk == [ok |-> TRUE, status |-> 200]
UpdateNotOk == [ok |-> FALSE, status |-> 400]

\* the accounts:update request and what came back
UpdateCall(uid, validSince, token, at, response) ==
  [op |-> "accounts:update", localId |-> uid, validSince |-> validSince,
   authorization |-> "Bearer " \o token, at |-> at, response |-> response]

\* a call of revokeRefreshTokensHandler that threw before any request
ThrewEarly(uid, at, e) ==
  [op |-> "revokeRefreshTokens", uid |-> uid, at |-> at, response |-> e]

\* the tokens of the account u1: issued by the project for u1, not yet expired
IssuedTokens ==
  {b \in AllBodies :
     /\ b.aud = Str("p1") /\ b.sub = Str("u1") /\ b.iss = Str(Issuer("p1"))
     /\ b.exp = Num(MaxTime) /\ b.auth_time = Undef}

\* verifyIdTokenHandler without a cache, from the token to the outcome
verifyIdTokenHandler(body, header, signedBy, keys, lookup, p, t, check) ==
  LET body_ == validateJwtBody(body, p, CeilSeconds(t))
  IN  IF ~body_.isValid THEN Rejected(Error(body_.errorMessage))
      ELSE IF header.alg # Str("RS256") THEN Rejected(Error("Token algorithm is not RS256"))
      ELSE IF ~Truthy(Prop(keys, ToStr(header.kid)))
        THEN Rejected(Error("Token key ID is not in the Google API"))
      ELSE LET v == verifyToken(body, signedBy, keys[ToStr(header.kid)], p, FloorSeconds(t))
           IN  IF ~v.ok THEN Rejected(v.error)
               ELSE IF check # Bool(TRUE) THEN Resolved(v.payload)
               ELSE IF lookup \in {networkError, jsonError} THEN Rejected(lookup)
               ELSE IF ~validSinceOf(lookup).ok THEN Rejected(validSinceOf(lookup).error)
               ELSE IF isRevoked(v.payload, validSinceOf(lookup).value)
                 THEN Rejected(Error("Token is revoked"))
                 ELSE Resolved(v.payload)

\* a verifyIdTokenHandler call with checkRevoked = true and its outcome
VerifyCall(body, header, signedBy, lookup, at, outcome) ==
  [op |-> "verifyIdToken", payload |-> body, header |-> header, signedBy |-> signedBy,
   response |-> lookup, at |-> at, result |-> outcome]

InitRevoke ==
  /\ pc = "revoke.idle"
  /\ projectId \in ProjectIds
  /\ oauth2Token = "ya29.token"
  /\ kvGiven = FALSE
  /\ checkRevoked = Bool(TRUE)
  /\ kv = EmptyKV
  /\ clock = StartClock
  /\ jwtBody = Unset
  /\ jwtHeader = Unset
  /\ jwtSignedBy = Unread
  /\ expectedKeyId = Unset
  /\ signingKey = Unset
  /\ cacheDuration = Unset
  /\ tokenPayload = Unset
  /\ result = Pending
  /\ io = <<>>
  /\ calls = <<>>
  /\ served = [k \in {"k1"} |-> Str("cert1")]
  /\ accounts \in [Uids -> [validSince : {Text(<<"0">>), Text(<<"1">>)}]]
  /\ instance = <<>>
  /\ callers = <<>>
  /\ tokenKv = Null

\* what the calls of this part leave alone
RevokeFrame ==
  UNCHANGED <<pc, projectId, oauth2Token, kvGiven, checkRevoked, kv, jwtBody, jwtHeader,
              jwtSignedBy, expectedKeyId, signingKey, cacheDuration, tokenPayload, result,
              calls, served, instance, callers, tokenKv>>

\* time passes
Tick ==
  /\ clock < MaxClock
  /\ clock' = clock + 1
  /\ UNCHANGED <<io, accounts>>
  /\ RevokeFrame

\* revokeRefreshTokensHandler(uid, oauth2AccessToken): the argument checks, validSince
\* from the clock, the accounts:update request; a request that failed on the network
\* may or may not have reached the server
RevokeRefreshTokens ==
  /\ Len(io) < MaxEvents
  /\ \E uid \in UidArguments :
       IF TypeOf(uid) # "string" \/ uid = Str("")
         THEN /\ io' = Append(io, ThrewEarly(uid, clock, Error("uid must be a non-empty string")))
              /\ UNCHANGED accounts
         ELSE LET validSince == Text(DecimalText(FloorSeconds(clock)))
              IN  \E response \in {UpdateOk, UpdateNotOk, networkError}, applied \in BOOLEAN :
                    /\ response = UpdateOk => applied
                    /\ response = UpdateNotOk => ~applied
                    /\ io' = Append(io, UpdateCall(uid.str, validSince, oauth2Token, clock,
                                                    response))
                    /\ accounts' = IF applied
                                     THEN [accounts EXCEPT ![uid.str].validSince = validSince]
                                     ELSE accounts
  /\ UNCHANGED clock
  /\ RevokeFrame

\* verifyIdTokenHandler(idToken, projectId, oauth2Token, undefined, true) on a token of
\* u1; the account lookup answers with the account as it is now, or fails
VerifyIdToken ==
  /\ Len(io) < MaxEvents
  /\ \E body \in IssuedTokens, alg \in {Str("RS256"), Str("HS256")}, signedBy \in PrivateKeys,
        lookup \in {networkError, [users |-> <<accounts["u1"]>>]} :
       LET header == [alg |-> alg, typ |-> Str("JWT"), kid |-> Str("k1")]
       IN  io' = Append(io, VerifyCall(body, header, signedBy, lookup, clock,
                            verifyIdTokenHandler(body, header, signedBy, served, lookup,
                                                 projectId, clock, checkRevoked)))
  /\ UNCHANGED <<clock, accounts>>
  /\ RevokeFrame

NextRevoke ==
  \/ Tick
  \/ RevokeRefreshTokens
  \/ VerifyIdToken

SpecRevoke == InitRevoke /\ [][NextRevoke]_vars

\* revocations that completed successfully, and verifications
Revocations == {i \in 1..Len(io) : io[i].op = "accounts:update" /\ io[i].response = UpdateOk}
Verifications == {j \in 1..Len(io) : io[j].op = "verifyIdToken"}

\* but for the revocation check the token of verification j is valid and was looked up
OtherwiseValid(j) ==
  /\ validateJwtBody(io[j].payload, projectId, CeilSeconds(io[j].at)).isValid
  /\ io[j].header.alg = Str("RS256")
  /\ verifyToken(io[j].payload, io[j].signedBy, served["k1"], projectId,
                 FloorSeconds(io[j].at)).ok
  /\ io[j].response # networkError

\* the token of verification j existed at the instant of revocation i
ExistedAt(j, i) ==
  /\ IsNum(io[j].payload.iat)
  /\ io[j].payload.iat.num * TicksPerSecond <= io[i].at

\* C25: once revokeRefreshTokensHandler(uid) has completed successfully, a
\* verification with checkRevoked = true of an otherwise valid token of that uid
\* whose iat is at or before the instant of the revocation call rejects with
\* "Token is revoked".
C25_RevokedTokensRejected ==
  \A i \in Revocations, j \in Verifications :
    (i < j /\ io[j].payload.sub = Str(io[i].localId) /\ OtherwiseValid(j) /\ ExistedAt(j, i))
      => io[j].result = Rejected(Error("Token is revoked"))

(***************************************************************************)
(* CloudFireAuth: verifyIdToken calls on one instance, each obtaining the  *)
(* OAuth2 access token through getOauth2AccessToken.  In this part clock   *)
(* is Date.now() / 1000, in seconds.                                       *)
(***************************************************************************)
NumCallers == 3
CallerIds == 1..NumCallers

\* the second in which the instance is constructed
Epoch == 1000000000
\* getOauth2AccessTokenHandler(this.serviceAccountKey, 3000, this.kvNamespace)
expiration == 3000
\* the instants at which something happens
Instants == {Epoch, Epoch + expiration}

\* the access token the OAuth2 server mints for the request of call c
MintedToken(c) == Str("ya29.minted" \o ToString(c))

\* JSON bodies of the token endpoint: a token, or an error without access_token
TokenResponses(c) ==
  {[access_token |-> MintedToken(c), expires_in |-> Num(n)] : n \in {1800, 3599}}
    \cup {[error |-> "invalid_grant"]}

\* Math.min(expiration, oauth2TokenResponse.expires_in)
MathMin(a, b) ==
  IF IsNum(a) /\ IsNum(b) THEN Num(IF a.num < b.num THEN a.num ELSE b.num) ELSE NaN

\* the entry "oauth2Token": a value and the second since the epoch at which it expires
TokenEntry(v, expiresAt) == [value |-> v, expiration |-> expiresAt]
\* kvNamespace.get("oauth2Token") at the second now
TokenKvValue(entry, now) ==
  IF entry = NoEntry \/ entry.expiration <= now THEN Null ELSE entry.value

\* the store accepts no expiration less than this many seconds ahead
MinimumTtl == 60
expirationError == Err("Error", "KV PUT failed: 400 Invalid expiration")
putTypeError == Err("TypeError", "KV put() accepts only strings")

\* what kvNamespace.put("oauth2Token", value, { expiration }) can do at the second now:
\* Undef when it resolves.  An expiration that is not far enough ahead is refused by
\* the store, or taken as it is by a store that does not look at it.
PutOutcomes(value, expiresAt, now) ==
  IF ~IsStr(value) \/ ~IsNum(expiresAt) THEN {putTypeError}
  ELSE IF expiresAt.num < now + MinimumTtl THEN {expirationError, Undef}
  ELSE {Undef}

\* the arguments verifyIdTokenHandler is called with
Handed(token, check) == [projectId |-> "p1", oauth2Token |-> token, checkRevoked |-> check]

\* a verifyIdToken call that has not been made yet
NotCalled ==
  [pc |-> "idle", checkRevoked |-> Undef, sawField |-> Unset, after |-> {}, kvRead |-> Unset,
   minted |-> Unset, put |-> Unset, got |-> Pending, handed |-> Unset, result |-> Pending]

\* ID tokens given to verifyIdToken: a token of the project, valid for an hour
AuthTokens ==
  {[aud |-> Str("p1"), sub |-> Str("u1"), iss |-> Str(Issuer("p1")),
    exp |-> Num(Epoch + 3600), iat |-> Num(Epoch), auth_time |-> Undef]}

\* what the account lookup answers to the handed credential
AuthLookups(token) ==
  IF Truthy(token)
    THEN {[users |-> <<[validSince |-> Text(<<"0">>)]>>]}
    ELSE {[error |-> "UNAUTHENTICATED"]}

InitAuth ==
  /\ pc = "verifyIdToken.calls"
  /\ projectId \in ProjectIds
  /\ oauth2Token = "ya29.token"
  /\ kvGiven \in BOOLEAN
  /\ checkRevoked = Undef
  /\ kv = EmptyKV
  /\ clock = Epoch
  /\ jwtBody = Unset
  /\ jwtHeader = Unset
  /\ jwtSignedBy = Unread
  /\ expectedKeyId = Unset
  /\ signingKey = Unset
  /\ cacheDuration = Unset
  /\ tokenPayload = Unset
  /\ result = Pending
  /\ io = <<>>
  /\ calls = <<>>
  /\ served = [k \in {"k1"} |-> Str("cert1")]
  /\ accounts = <<>>
  /\ instance = [oauth2Token |-> Undef]
  /\ callers = [c \in CallerIds |-> NotCalled]
  /\ tokenKv \in (IF kvGiven THEN {NoEntry, TokenEntry(Str("ya29.stored"), Epoch + 1800)}
                            ELSE {NoEntry})

\* what the calls of this part leave alone
AuthFrame ==
  UNCHANGED <<pc, projectId, oauth2Token, kvGiven, checkRevoked, kv, jwtBody, jwtHeader,
              jwtSignedBy, expectedKeyId, signingKey, cacheDuration, tokenPayload, result, io,
              calls, served, accounts>>

\* time passes
Elapse ==
  /\ \E t \in Instants : t > clock /\ clock' = t
  /\ UNCHANGED <<instance, callers, tokenKv>>
  /\ AuthFrame

\* getOauth2AccessToken returns token: this.oauth2Token = token, and verifyIdToken
\* goes on to call verifyIdTokenHandler with it
ReturnToken(c, frame, token) ==
  /\ instance' = [instance EXCEPT !.oauth2Token = token]
  /\ callers' = [callers EXCEPT ![c] = [frame EXCEPT !.pc = "verifyIdTokenHandler",
                                                       !.got = Resolved(token),
                                                       !.handed = Handed(token, frame.checkRevoked)]]

\* an awaited promise of getOauth2AccessToken rejects, and verifyIdToken with it
FailToken(c, frame, e) ==
  /\ callers' = [callers EXCEPT ![c] = [frame EXCEPT !.pc = "returned",
                                                       !.got = Rejected(e),
                                                       !.result = Rejected(e)]]
  /\ UNCHANGED instance

\* the calls whose getOauth2AccessToken has returned a token
Completed == {d \in CallerIds : callers[d].got \notin {Pending} /\ callers[d].got.state = "fulfilled"}

\* CallVerifyIdToken that obtains the access token only for a call with checkRevoked
CallVerifyIdToken_TokenOnlyToCheckRevoked(c) ==
  /\ callers[c].pc = "idle"
  /\ \A d \in CallerIds : d < c => callers[d].pc # "idle"
  /\ \E check \in {Undef, Bool(FALSE), Bool(TRUE)} :
       LET frame == [callers[c] EXCEPT !.checkRevoked = check,
                                       !.sawField = instance.oauth2Token,
                                       !.after = Completed]
       IN  IF check # Bool(TRUE)
             THEN /\ callers' = [callers EXCEPT ![c] =
                                   [frame EXCEPT !.pc = "verifyIdTokenHandler",
                                                 !.handed = Handed(instance.oauth2Token, check)]]
                  /\ UNCHANGED instance
           ELSE IF Truthy(instance.oauth2Token)
             THEN /\ callers' = [callers EXCEPT ![c] =
                                   [frame EXCEPT !.pc = "verifyIdTokenHandler",
                                                 !.got = Resolved(instance.oauth2Token),
                                                 !.handed = Handed(instance.oauth2Token, check)]]
                  /\ UNCHANGED instance
             ELSE /\ callers' = [callers EXCEPT ![c] =
                                   [frame EXCEPT !.pc = IF kvGiven THEN "kv.get" ELSE "fetch"]]
                  /\ UNCHANGED instance
  /\ UNCHANGED <<clock, tokenKv>>
  /\ AuthFrame

\* CloudFireAuth.ts 97-98 and 362-370: verifyIdToken(idToken, checkRevoked) is called and
\* getOauth2AccessToken runs to its first await
CallVerifyIdToken(c) ==
  /\ callers[c].pc = "idle"
  /\ \A d \in CallerIds : d < c => callers[d].pc # "idle"
  /\ \E check \in {Undef, Bool(FALSE), Bool(TRUE)} :
       LET frame == [callers[c] EXCEPT !.checkRevoked = check,
                                       !.sawField = instance.oauth2Token,
                                       !.after = Completed]
       IN  IF Truthy(instance.oauth2Token)
             THEN /\ callers' = [callers EXCEPT ![c] =
                                   [frame EXCEPT !.pc = "verifyIdTokenHandler",
                                                 !.got = Resolved(instance.oauth2Token),
                                                 !.handed = Handed(instance.oauth2Token, check)]]
                  /\ UNCHANGED instance
             ELSE /\ callers' = [callers EXCEPT ![c] =
                                   [frame EXCEPT !.pc = IF kvGiven THEN "kv.get" ELSE "fetch"]]
                  /\ UNCHANGED instance
  /\ UNCHANGED <<clock, tokenKv>>
  /\ AuthFrame

\* CloudFireAuth.ts 369-379: kvNamespace.get("oauth2Token") settles
KvGetToken(c) ==
  /\ callers[c].pc = "kv.get"
  /\ \E response \in {Rejected(kvError), Resolved(TokenKvValue(tokenKv, clock))} :
       LET frame == [callers[c] EXCEPT !.kvRead = response]
       IN  IF response = Rejected(kvError) THEN FailToken(c, frame, kvError)
           ELSE IF Truthy(response.value) THEN ReturnToken(c, frame, response.value)
           ELSE /\ callers' = [callers EXCEPT ![c] = [frame EXCEPT !.pc = "fetch"]]
                /\ UNCHANGED instance
  /\ UNCHANGED <<clock, tokenKv>>
  /\ AuthFrame

\* get-oauth-2-token.ts 29-46 and CloudFireAuth.ts 377-379: the token request settles
MintToken(c) ==
  /\ callers[c].pc = "fetch"
  /\ \E response \in {Rejected(networkError)} \cup {Resolved(r) : r \in TokenResponses(c)} :
       LET frame == [callers[c] EXCEPT !.minted = response]
       IN  IF response = Rejected(networkError) THEN FailToken(c, frame, networkError)
           ELSE IF kvGiven
             THEN /\ callers' = [callers EXCEPT ![c] = [frame EXCEPT !.pc = "kv.put"]]
                  /\ UNCHANGED instance
             ELSE ReturnToken(c, frame, Prop(response.value, "access_token"))
  /\ UNCHANGED <<clock, tokenKv>>
  /\ AuthFrame

\* get-oauth-2-token.ts 44-52 and CloudFireAuth.ts 377-379: the put of the minted
\* token with { expiration: shortestExpiration } settles
KvPutToken(c) ==
  /\ callers[c].pc = "kv.put"
  /\ LET oauth2TokenResponse == callers[c].minted.value
         access_token == Prop(oauth2TokenResponse, "access_token")
         shortestExpiration == MathMin(Num(expiration), Prop(oauth2TokenResponse, "expires_in"))
     IN  \E outcome \in PutOutcomes(access_token, shortestExpiration, clock) \cup {kvError} :
           LET frame == [callers[c] EXCEPT !.put = [at |-> clock, response |-> outcome]]
           IN  IF outcome = Undef
                 THEN /\ tokenKv' = TokenEntry(access_token, shortestExpiration.num)
                      /\ ReturnToken(c, frame, access_token)
                 ELSE /\ FailToken(c, frame, outcome)
                      /\ UNCHANGED tokenKv
  /\ UNCHANGED clock
  /\ AuthFrame

\* CloudFireAuth.ts 99: verifyIdTokenHandler(idToken, this.projectId, oauth2Token,
\* this.kvNamespace, checkRevoked) runs and settles
RunHandler(c) ==
  /\ callers[c].pc = "verifyIdTokenHandler"
  /\ \E body \in AuthTokens, lookup \in AuthLookups(callers[c].handed.oauth2Token) :
       callers' = [callers EXCEPT
                     ![c].pc = "returned",
                     ![c].result =
                       verifyIdTokenHandler(body,
                                            [alg |-> Str("RS256"), typ |-> Str("JWT"),
                                             kid |-> Str("k1")],
                                            "key1", served, lookup, projectId,
                                            clock * TicksPerSecond,
                                            callers[c].handed.checkRevoked)]
  /\ UNCHANGED <<clock, instance, tokenKv>>
  /\ AuthFrame

NextAuth ==
  \/ Elapse
  \/ \E c \in CallerIds :
       \/ CallVerifyIdToken(c)
       \/ KvGetToken(c)
       \/ MintToken(c)
       \/ KvPutToken(c)
       \/ RunHandler(c)

SpecAuth == InitAuth /\ [][NextAuth]_vars

(***************************************************************************)
(* Properties of the CloudFireAuth calls                                   *)
(***************************************************************************)
\* call c minted a token with a lifetime and its put was answered by the store
\* itself (not by a failure of the store)
PutMinted(c) ==
  /\ callers[c].put # Unset
  /\ callers[c].put.response # kvError
  /\ "access_token" \in DOMAIN callers[c].minted.value

\* min(expiration, expires_in) of the token response of call c
ShortestOf(c) ==
  IF callers[c].minted.value.expires_in.num < expiration
    THEN callers[c].minted.value.expires_in.num
    ELSE expiration

\* C26: with a KV namespace, the token minted by getOauth2AccessTokenHandler is
\* readable under "oauth2Token" from its write until min(expiration, expires_in)
\* seconds later, and gone afterwards (as long as no other call has written the key).
C26_StoredForShortestExpiration ==
  \A c \in CallerIds :
    (PutMinted(c) /\ \A d \in CallerIds \ {c} : callers[d].put = Unset)
      => IF clock < callers[c].put.at + ShortestOf(c)
           THEN TokenKvValue(tokenKv, clock) = callers[c].minted.value.access_token
           ELSE TokenKvValue(tokenKv, clock) # callers[c].minted.value.access_token

\* call c read the cache or requested a token
ReadKv(c) == callers[c].kvRead # Unset
Minted(c) == callers[c].minted # Unset

\* C29: getOauth2AccessToken reads KV only when the instance field holds no token
\* and a namespace was given, requests a new token only when the field and KV hold
\* none, and a call made after another has returned a token returns the identical
\* token with no KV read and no token request.
C29_FieldThenKvThenMint ==
  \A c \in CallerIds :
    /\ ReadKv(c) => (~Truthy(callers[c].sawField) /\ kvGiven)
    /\ Minted(c) =>
         /\ ~Truthy(callers[c].sawField)
         /\ kvGiven => (ReadKv(c) /\ callers[c].kvRead.state = "fulfilled"
                                 /\ ~Truthy(callers[c].kvRead.value))
    /\ \A d \in callers[c].after :
         /\ ~ReadKv(c)
         /\ ~Minted(c)
         /\ callers[c].got # Pending => callers[c].got = callers[d].got

====
